---- MODULE Spec2Model ----
(***************************************************************************)
(* AIGis gateway: sensitive-data scanner (Mask / Unmask over a per-request *)
(* vault), request/response transforms, route selection and upstream       *)
(* header construction.                                                    *)
(*                                                                         *)
(* Text is a sequence of characters, each a one-character string.  The 12  *)
(* hex characters of a SHA-256 digest are modelled symbolically by strings *)
(* longer than one character (see HexOf), so two digests are equal exactly *)
(* when their originals are (an ideal, collision-free hash).  A digest     *)
(* character is a lower-case hex character; it occurs only inside a        *)
(* placeholder, between underscores.                                       *)
(*                                                                         *)
(* An operator that needs a computed value more than once takes it as a    *)
(* parameter (XxxAt, XxxWith, ...): the value is then computed once.       *)
(***************************************************************************)
EXTENDS Integers, Sequences, FiniteSets, TLC

VARIABLES
    rules,      \* Scanner.rules: the ordered rule list
    ctx,        \* the AIGisContext of the request: [isNil, secretVault]
    input,      \* the text last handed to the scanner
    output,     \* the text the scanner last returned
    lastOp,     \* the scanner operation that last ran
    fed,        \* the texts handed to Mask so far, in call order
    used,       \* number of text fragments fed to the scanner so far
    ruleCalls,  \* the AddRule calls so far: [Name, Pattern, Replacement, err]
    transforms, \* route.Transforms of the provider: the ordered steps
    pc,         \* where UniversalProvider.Send stands
    reqBody,    \* the body handed to Send
    upBody,     \* the body of the request on the wire to the upstream
    upResp,     \* the body of the upstream's reply
    result,     \* what Send returned: [ok, body, err]
    upStatus,   \* the status of the upstream's reply, 0 without a reply
    upCalls,    \* number of HTTP requests this Send put on the wire
    routes,     \* EngineConfig.Routes, in declared order: [ID, Matcher]
    matchers,   \* Engine.matchers: route id -> (json path -> pattern)
    enginePc,   \* where the engine stands: config, ready, failed, found
    findBody,   \* the body last handed to FindRoute
    findResult, \* what FindRoute returned: [err, route], route 0 being nil
    headerPolicy,     \* route.HeaderPolicy: [Allow, Set, Remove]
    upstream,         \* route.Upstream: [BaseURL, Path, AuthStrategy, TokenEnv, HeaderName]
    environ,          \* the process environment: name -> value
    originalHeaders,  \* the headers of the client's request
    upstreamHeaders,  \* the headers of the request to the upstream
    upstreamURL,      \* the URL of the request to the upstream: [url, query]
    headerPc,         \* where the header construction stands: config, built
    reqs,             \* the requests of the gateway: id -> state of its handler
    processors,       \* Pipeline.processors, in registration order
    pipeRun           \* the last execution of the pipeline: what ran and what it returned

scanVars == <<rules, ctx, input, output, lastOp, fed, used, ruleCalls>>
sendVars == <<transforms, pc, reqBody, upBody, upResp, result, upStatus, upCalls>>
routeVars == <<routes, matchers, enginePc, findBody, findResult>>
headerVars == <<headerPolicy, upstream, environ, originalHeaders, upstreamHeaders, upstreamURL,
                headerPc>>
gatewayVars == <<reqs>>
pipelineVars == <<processors, pipeRun>>
vars == <<scanVars, sendVars, routeVars, headerVars, gatewayVars, pipelineVars>>

----------------------------------------------------------------------------
(* Characters and character classes of the regular expressions.  A class   *)
(* that holds "<>" admits the characters of a symbolic digest.             *)

Upper == {"A","B","C","D","E","F","G","H","I","J","K","L","M",
          "N","O","P","Q","R","S","T","U","V","W","X","Y","Z"}
Lower == {"a","b","c","d","e","f","g","h","i","j","k","l","m",
          "n","o","p","q","r","s","t","u","v","w","x","y","z"}
Digit == {"0","1","2","3","4","5","6","7","8","9"}                        \* \d
Alnum == Upper \cup Lower \cup Digit \cup {"<>"}                          \* [a-zA-Z0-9]
Word  == Alnum \cup {"_"}                                                 \* \w, for \b
Alpha == Upper \cup Lower                                                 \* [a-zA-Z]
Space == {" ", "\t", "\n", "\f", "\r"}                                    \* \s
UpperSpace  == Upper \cup {" "}                                           \* [A-Z ]
UpperDigit  == Upper \cup Digit                                           \* [0-9A-Z]
GoogleChar  == Alnum \cup {"-","_"}                                       \* [0-9A-Za-z-_]
EmailLocal  == Alnum \cup {".","_","%","+","-"}                           \* [a-zA-Z0-9._%+-]
EmailDomain == Alnum \cup {".","-"}                                       \* [a-zA-Z0-9.-]
HexChar     == Digit \cup {"a","b","c","d","e","f","<>"}                  \* [0-9a-f]

\* the character c belongs to the class cls
InClass(cls, c) == c \in cls \/ (Len(c) > 1 /\ "<>" \in cls)

\* the character at position i, or "" outside the text
At(s, i) == IF i >= 1 /\ i <= Len(s) THEN s[i] ELSE ""

\* \b at the gap before position i
WordBoundary(s, i) == InClass(Word, At(s, i - 1)) # InClass(Word, At(s, i))

\* the literal lit stands at position i
Lit(s, i, lit) == \A k \in 1..Len(lit) : At(s, i + k - 1) = lit[k]

\* n characters of class cls stand at position i
Exactly(s, i, n, cls) == \A k \in 0..(n - 1) : InClass(cls, At(s, i + k))

Rep(c, n) == [k \in 1..n |-> c]

\* the characters of a string of the model
Chars(str) == [i \in 1..Len(str) |-> SubSeq(str, i, i)]

\* the one element of a set of one element; The({F(x) : x \in {e}}) is F(e)
\* with e computed once, before F
The(S) == CHOOSE y \in S : TRUE

\* the largest element of S, or 0 when S is empty
MaxOrZero(S) == IF S = {} THEN 0 ELSE CHOOSE x \in S : \A y \in S : y <= x

\* the smallest element of S, or 0 when S is empty
MinOrZero(S) == IF S = {} THEN 0 ELSE CHOOSE x \in S : \A y \in S : x <= y

\* length of the longest run of class cls starting at position i: up to the
\* first position, the end of the text included, not of the class
RunLen(s, i, cls) ==
    MinOrZero({j \in i..(Len(s) + 1) : ~InClass(cls, At(s, j))}) - i

\* the text sub occurs in the text s
Occurs(sub, s) == \E i \in 1..(Len(s) - Len(sub) + 1) : SubSeq(s, i, i + Len(sub) - 1) = sub

\* the first alternative of a regexp that matches: a if it matched, else b
OrElse(a, b) == IF a > 0 THEN a ELSE b

----------------------------------------------------------------------------
(* The built-in patterns.  Each XxxEnd(s, i) is the position just after    *)
(* the leftmost-first (greedy, backtracking) match of the pattern that     *)
(* starts at position i, or 0 when the pattern does not match there.       *)

PrivateKeyTail == <<" ","P","R","I","V","A","T","E"," ","K","E","Y","-","-","-","-","-">>

\* [A-Z ]+ PRIVATE KEY----- from position b, the run taking k characters
PrivateKeyAt(s, b, k) == IF k = 0 THEN 0 ELSE b + k + Len(PrivateKeyTail)

\* -----BEGIN [A-Z ]+ PRIVATE KEY-----
PrivateKeyEnd(s, i) ==
    IF Lit(s, i, <<"-","-","-","-","-","B","E","G","I","N"," ">>)
    THEN PrivateKeyAt(s, i + 11,
            MaxOrZero({k \in 1..RunLen(s, i + 11, UpperSpace) : Lit(s, i + 11 + k, PrivateKeyTail)}))
    ELSE 0

\* \bAKIA[0-9A-Z]{16}\b
AwsKeyEnd(s, i) ==
    IF /\ WordBoundary(s, i)
       /\ Lit(s, i, <<"A","K","I","A">>)
       /\ Exactly(s, i + 4, 16, UpperDigit)
       /\ WordBoundary(s, i + 20)
    THEN i + 20 ELSE 0

\* [a-zA-Z0-9]{20,}\b from position b, n being the length of the run there:
\* the run is greedy, and a shorter run ends between two word characters,
\* where \b fails
AlnumRunAt(s, b, n) == IF n >= 20 /\ WordBoundary(s, b + n) THEN b + n ELSE 0

AlnumRunEnd(s, b) == AlnumRunAt(s, b, RunLen(s, b, Alnum))

\* \bsk-(?:proj-)?[a-zA-Z0-9]{20,}\b
OpenAIKeyEnd(s, i) ==
    IF WordBoundary(s, i) /\ Lit(s, i, <<"s","k","-">>)
    THEN OrElse(IF Lit(s, i + 3, <<"p","r","o","j","-">>) THEN AlnumRunEnd(s, i + 8) ELSE 0,
                AlnumRunEnd(s, i + 3))
    ELSE 0

\* \b(ghp|gho|ghu|ghs|ghr)_[a-zA-Z0-9]{36}\b
GitHubTokenEnd(s, i) ==
    IF /\ WordBoundary(s, i)
       /\ Lit(s, i, <<"g","h">>)
       /\ At(s, i + 2) \in {"p","o","u","s","r"}
       /\ At(s, i + 3) = "_"
       /\ Exactly(s, i + 4, 36, Alnum)
       /\ WordBoundary(s, i + 40)
    THEN i + 40 ELSE 0

\* \bAIza[0-9A-Za-z-_]{35}\b
GoogleKeyEnd(s, i) ==
    IF /\ WordBoundary(s, i)
       /\ Lit(s, i, <<"A","I","z","a">>)
       /\ Exactly(s, i + 4, 35, GoogleChar)
       /\ WordBoundary(s, i + 39)
    THEN i + 39 ELSE 0

\* \.[a-zA-Z]{2,} after a domain of k characters that starts at d: the TLD
\* is greedy
EmailTldAt(s, d, k) ==
    IF k = 0 THEN 0 ELSE d + k + 1 + RunLen(s, d + k + 1, Alpha)

\* [a-zA-Z0-9.-]+\.[a-zA-Z]{2,} from position d, m being the length of the
\* domain run there: the domain is the longest prefix of the run that a dot
\* and two letters follow
EmailDomainAt(s, d, m) ==
    EmailTldAt(s, d,
        MaxOrZero({k \in 1..m : At(s, d + k) = "." /\ RunLen(s, d + k + 1, Alpha) >= 2}))

\* the pattern from position i, n being the length of the local run there:
\* the local part is the whole run, up to "@"
EmailAt(s, i, n) ==
    IF n >= 1 /\ At(s, i + n) = "@"
    THEN EmailDomainAt(s, i + n + 1, RunLen(s, i + n + 1, EmailDomain))
    ELSE 0

\* [a-zA-Z0-9._%+-]+@[a-zA-Z0-9.-]+\.[a-zA-Z]{2,}
EmailEnd(s, i) == EmailAt(s, i, RunLen(s, i, EmailLocal))

\* (?:1[3-9]\d{9})\b at position q
PhoneDigitsEnd(s, q) ==
    IF /\ At(s, q) = "1"
       /\ At(s, q + 1) \in {"3","4","5","6","7","8","9"}
       /\ Exactly(s, q + 2, 9, Digit)
       /\ WordBoundary(s, q + 11)
    THEN q + 11 ELSE 0

\* \s*(?:1[3-9]\d{9})\b from position b
PhoneTailEnd(s, b) == PhoneDigitsEnd(s, b + RunLen(s, b, Space))

\* \b(?:\+?86)?\s*(?:1[3-9]\d{9})\b
PhoneEnd(s, i) ==
    IF ~WordBoundary(s, i) THEN 0
    ELSE OrElse(IF Lit(s, i, <<"+","8","6">>) THEN PhoneTailEnd(s, i + 3)
                ELSE IF Lit(s, i, <<"8","6">>) THEN PhoneTailEnd(s, i + 2)
                ELSE 0,
                PhoneTailEnd(s, i))

PlaceholderPrefix == <<"_","_","A","I","G","I","S","_","S","E","C","_">>

\* __AIGIS_SEC_[0-9a-f]{12}__
PlaceholderEnd(s, i) ==
    IF /\ Lit(s, i, PlaceholderPrefix)
       /\ Exactly(s, i + 12, 12, HexChar)
       /\ Lit(s, i + 24, <<"_","_">>)
    THEN i + 26 ELSE 0

PlaceholderPattern == "__AIGIS_SEC_[0-9a-f]{12}__"

\* \d{4}-\d{4}
CodeEnd(s, i) ==
    IF Exactly(s, i, 4, Digit) /\ At(s, i + 4) = "-" /\ Exactly(s, i + 5, 4, Digit)
    THEN i + 9 ELSE 0

CodePattern == "\\d{4}-\\d{4}"

\* SecretCode:\s*\d{4}-\d{4}
SecretCodeEnd(s, i) ==
    IF Lit(s, i, <<"S","e","c","r","e","t","C","o","d","e",":">>)
    THEN CodeEnd(s, i + 11 + RunLen(s, i + 11, Space))
    ELSE 0

SecretCodePattern == "SecretCode:\\s*\\d{4}-\\d{4}"

\* regexp.Regexp match at a position, by the pattern's source text
MatchEnd(pattern, s, i) ==
    CASE pattern = "-----BEGIN [A-Z ]+ PRIVATE KEY-----"              -> PrivateKeyEnd(s, i)
      [] pattern = "\\bAKIA[0-9A-Z]{16}\\b"                           -> AwsKeyEnd(s, i)
      [] pattern = "\\bsk-(?:proj-)?[a-zA-Z0-9]{20,}\\b"              -> OpenAIKeyEnd(s, i)
      [] pattern = "\\b(ghp|gho|ghu|ghs|ghr)_[a-zA-Z0-9]{36}\\b"      -> GitHubTokenEnd(s, i)
      [] pattern = "\\bAIza[0-9A-Za-z-_]{35}\\b"                      -> GoogleKeyEnd(s, i)
      [] pattern = "[a-zA-Z0-9._%+-]+@[a-zA-Z0-9.-]+\\.[a-zA-Z]{2,}"  -> EmailEnd(s, i)
      [] pattern = "\\b(?:\\+?86)?\\s*(?:1[3-9]\\d{9})\\b"            -> PhoneEnd(s, i)
      [] pattern = PlaceholderPattern                                 -> PlaceholderEnd(s, i)
      [] pattern = SecretCodePattern                                  -> SecretCodeEnd(s, i)
      [] pattern = CodePattern                                        -> CodeEnd(s, i)
      [] OTHER -> 0

\* the first position from i on where the pattern matches, or 0
NextMatch(pattern, s, i) == MinOrZero({j \in i..Len(s) : MatchEnd(pattern, s, j) > 0})

RECURSIVE FindAll(_, _, _)
RECURSIVE FindAllAt(_, _, _)
\* the scan when the next match starts at position j (0: no more match)
FindAllAt(pattern, s, j) ==
    IF j = 0 THEN <<>>
    ELSE <<(<<j, MatchEnd(pattern, s, j)>>)>> \o FindAll(pattern, s, MatchEnd(pattern, s, j))

\* the leftmost non-overlapping matches of pattern in s from position i on,
\* as <<first, end>> pairs in order (the scan of regexp.Regexp.ReplaceAll*)
FindAll(pattern, s, i) == FindAllAt(pattern, s, NextMatch(pattern, s, i))

\* the text of the match m of s
MatchText(s, m) == SubSeq(s, m[1], m[2] - 1)

RECURSIVE Splice(_, _, _, _, _)
\* s from pos on, with the k-th and later matches ms replaced by the texts rs
Splice(s, ms, rs, k, pos) ==
    IF k > Len(ms) THEN SubSeq(s, pos, Len(s))
    ELSE SubSeq(s, pos, ms[k][1] - 1) \o rs[k] \o Splice(s, ms, rs, k + 1, ms[k][2])

\* the built-in rule list, in registration order
NewScanner ==
    << [Name |-> "Private Key",    Pattern |-> "-----BEGIN [A-Z ]+ PRIVATE KEY-----",
        Replacement |-> "[PRIVATE_KEY_REDACTED]"],
       [Name |-> "AWS Access Key", Pattern |-> "\\bAKIA[0-9A-Z]{16}\\b",
        Replacement |-> "[AWS_AK_REDACTED]"],
       [Name |-> "OpenAI API Key", Pattern |-> "\\bsk-(?:proj-)?[a-zA-Z0-9]{20,}\\b",
        Replacement |-> "[OPENAI_KEY_REDACTED]"],
       [Name |-> "GitHub Token",   Pattern |-> "\\b(ghp|gho|ghu|ghs|ghr)_[a-zA-Z0-9]{36}\\b",
        Replacement |-> "[GITHUB_TOKEN_REDACTED]"],
       [Name |-> "Google API Key", Pattern |-> "\\bAIza[0-9A-Za-z-_]{35}\\b",
        Replacement |-> "[GOOGLE_KEY_REDACTED]"],
       [Name |-> "Email",          Pattern |-> "[a-zA-Z0-9._%+-]+@[a-zA-Z0-9.-]+\\.[a-zA-Z]{2,}",
        Replacement |-> "[EMAIL_REDACTED]"],
       [Name |-> "Mobile Phone",   Pattern |-> "\\b(?:\\+?86)?\\s*(?:1[3-9]\\d{9})\\b",
        Replacement |-> "[PHONE_REDACTED]"] >>

----------------------------------------------------------------------------
(* The per-request context and its vault.                                  *)

EmptyVault == [p \in {} |-> <<>>]

\* a context created on ingress: an empty vault
NewGatewayContext == [isNil |-> FALSE, secretVault |-> EmptyVault]

\* a nil ctx argument
NilContext == [isNil |-> TRUE, secretVault |-> EmptyVault]

\* a variant of the write that empties the vault first
VaultStoreAlone(c, placeholder, original) ==
    [c EXCEPT !.secretVault = [p \in {placeholder} |-> original]]

\* c.secretVault[placeholder] = original
VaultStore(c, placeholder, original) ==
    [c EXCEPT !.secretVault =
        [p \in (DOMAIN c.secretVault) \cup {placeholder} |->
            IF p = placeholder THEN original ELSE c.secretVault[p]]]

\* (original, ok) of c.secretVault[placeholder]
VaultGet(c, placeholder) ==
    IF placeholder \in DOMAIN c.secretVault
    THEN [original |-> c.secretVault[placeholder], found |-> TRUE]
    ELSE [original |-> <<>>, found |-> FALSE]

----------------------------------------------------------------------------
(* Scanner: Mask and Unmask.                                               *)

RECURSIVE Join(_, _, _)
\* the characters lo..hi of s written out as one string
Join(s, lo, hi) ==
    IF lo > hi THEN ""
    ELSE IF lo = hi THEN s[lo]
    ELSE Join(s, lo, (lo + hi) \div 2) \o Join(s, (lo + hi) \div 2 + 1, hi)

\* hex.EncodeToString(sha256.Sum256(original))[:12]: twelve hex characters.
\* The first is the symbolic digest, the original between angle brackets
\* (which no text contains); the other eleven only continue it.
HexOf(original) == <<"<" \o Join(original, 1, Len(original)) \o ">">> \o Rep("<*>", 11)

\* "__AIGIS_SEC_%s__" of the first 12 hex characters of the digest
generatePlaceholder(original) ==
    PlaceholderPrefix \o HexOf(original) \o <<"_","_">>

\* a variant of the callback's vault write that keys the entry by the match
MaskStoreRaw(c, match) == VaultStore(c, match, match)

\* the replacement callback of Mask on one match: the vault write
MaskStore(c, match) == VaultStore(c, generatePlaceholder(match), match)

RECURSIVE StoreAll(_, _, _, _)
\* the vault writes of one rule's callback, for the k-th and later matches
StoreAll(c, s, ms, k) ==
    IF k > Len(ms) THEN c
    ELSE StoreAll(MaskStore(c, MatchText(s, ms[k])), s, ms, k + 1)

\* one rule of Mask, given its matches ms in s: every match replaced by its
\* placeholder, and stored when there is a context
MaskMatches(c, s, ms) ==
    [result |-> Splice(s, ms, [k \in 1..Len(ms) |-> generatePlaceholder(MatchText(s, ms[k]))], 1, 1),
     ctx    |-> IF c.isNil THEN c ELSE StoreAll(c, s, ms, 1)]

\* one rule of Mask: ReplaceAllStringFunc with the placeholder callback
MaskRule(c, pattern, s) == MaskMatches(c, s, FindAll(pattern, s, 1))

\* the tag filter of Mask: no tags, the tag "all", or the rule's name
ShouldApply(rule, tags) ==
    Len(tags) = 0 \/ \E k \in 1..Len(tags) : tags[k] = "all" \/ tags[k] = rule.Name

RECURSIVE MaskFrom(_, _, _, _, _)
RECURSIVE MaskAfter(_, _, _, _)
\* the rule loop of Mask after rule k returned r
MaskAfter(rs, k, r, tags) == MaskFrom(rs, k + 1, r.ctx, r.result, tags)

\* the rule loop of Mask from rule k on
MaskFrom(rs, k, c, s, tags) ==
    IF k > Len(rs) THEN [result |-> s, ctx |-> c]
    ELSE IF ~ShouldApply(rs[k], tags) THEN MaskFrom(rs, k + 1, c, s, tags)
    ELSE The({MaskAfter(rs, k, r, tags) : r \in {MaskRule(c, rs[k].Pattern, s)}})

\* Scanner.Mask: the masked text and the context after the vault writes
Mask(rs, c, s, tags) == MaskFrom(rs, 1, c, s, tags)

\* a variant of the callback that ignores the ok flag of VaultGet
UnmaskFoundAlways(g, placeholder) == g.original

\* the replacement callback of Unmask, g being VaultGet of the placeholder
UnmaskFound(g, placeholder) == IF g.found THEN g.original ELSE placeholder

UnmaskOne(c, placeholder) == UnmaskFound(VaultGet(c, placeholder), placeholder)

\* Unmask given the placeholder-shaped matches ms of s
UnmaskMatches(c, s, ms) ==
    Splice(s, ms, [k \in 1..Len(ms) |-> UnmaskOne(c, MatchText(s, ms[k]))], 1, 1)

\* Scanner.Unmask
Unmask(c, s) ==
    IF c.isNil THEN s ELSE UnmaskMatches(c, s, FindAll(PlaceholderPattern, s, 1))

----------------------------------------------------------------------------
(* Scanner: Sanitize.  ReplaceAllString expands its replacement as a       *)
(* template: $name, ${name} and $1 stand for submatches, $$ for a dollar.  *)

NameChar == Alpha \cup Digit \cup {"_"}

\* the first "$" of the template t from position i on, or 0
NextDollar(t, i) == MinOrZero({j \in i..Len(t) : t[j] = "$"})

\* the submatch a name of the template refers to, m being the match in s:
\* 0 is the whole match, 1 the only capture group of the patterns, the
\* prefix of a GitHub token; no pattern has a named group, and a submatch
\* that does not exist expands to nothing
Submatch(pattern, s, m, name) ==
    CASE name = <<"0">> -> MatchText(s, m)
      [] name = <<"1">> /\ pattern = "\\b(ghp|gho|ghu|ghs|ghr)_[a-zA-Z0-9]{36}\\b"
                      -> SubSeq(s, m[1], m[1] + 2)
      [] OTHER -> <<>>

RECURSIVE ReplFrom(_, _, _, _, _)
\* $name at position j of t, n being the length of the name; without a
\* name the "$" is raw text
ReplName(t, j, n, pattern, s, m) ==
    IF n = 0 THEN <<"$">> \o ReplFrom(t, j + 1, pattern, s, m)
    ELSE Submatch(pattern, s, m, SubSeq(t, j + 1, j + n)) \o ReplFrom(t, j + n + 1, pattern, s, m)

\* ${name} at position j of t, n being the length of the name; without a
\* name or a closing brace the "$" is raw text
ReplBrace(t, j, n, pattern, s, m) ==
    IF n = 0 \/ At(t, j + 2 + n) # "}" THEN <<"$">> \o ReplFrom(t, j + 1, pattern, s, m)
    ELSE Submatch(pattern, s, m, SubSeq(t, j + 2, j + 1 + n)) \o ReplFrom(t, j + n + 3, pattern, s, m)

\* the template t from position i on, its next "$" being at position j
ReplAt(t, i, j, pattern, s, m) ==
    IF j = 0 THEN SubSeq(t, i, Len(t))
    ELSE SubSeq(t, i, j - 1)
         \o (IF At(t, j + 1) = "$" THEN <<"$">> \o ReplFrom(t, j + 2, pattern, s, m)
             ELSE IF At(t, j + 1) = "{"
             THEN ReplBrace(t, j, RunLen(t, j + 2, NameChar), pattern, s, m)
             ELSE ReplName(t, j, RunLen(t, j + 1, NameChar), pattern, s, m))

ReplFrom(t, i, pattern, s, m) == ReplAt(t, i, NextDollar(t, i), pattern, s, m)

\* the text that replaces the match m of s: the expanded replacement
ReplExpand(replacement, pattern, s, m) == ReplFrom(replacement, 1, pattern, s, m)

\* a variant that writes the replacement as it stands
ReplLiteral(replacement, pattern, s, m) == replacement

\* one rule of Sanitize, given its matches ms in s
SanitizeMatches(rule, s, ms) ==
    Splice(s, ms, [k \in 1..Len(ms) |-> ReplExpand(Chars(rule.Replacement), rule.Pattern, s, ms[k])],
           1, 1)

\* rule.Pattern.ReplaceAllString(result, rule.Replacement)
ReplaceAllString(rule, s) == SanitizeMatches(rule, s, FindAll(rule.Pattern, s, 1))

RECURSIVE SanitizeFrom(_, _, _)
\* the rule loop of Sanitize from rule k on
SanitizeFrom(rs, k, s) ==
    IF k > Len(rs) THEN s
    ELSE The({SanitizeFrom(rs, k + 1, t) : t \in {ReplaceAllString(rs[k], s)}})

\* Scanner.Sanitize
Sanitize(rs, s) == SanitizeFrom(rs, 1, s)

----------------------------------------------------------------------------
(* JSON bodies as the sonic AST sees them.  A node is [t, s, k, a]: its    *)
(* type, its text (of a string, or the raw text of a number or of a body   *)
(* that does not parse), the keys of an object and the values of an object *)
(* or array.                                                               *)

JNull      == [t |-> "null", s |-> <<>>, k |-> <<>>, a |-> <<>>]
JStr(s)    == [t |-> "str",  s |-> s,    k |-> <<>>, a |-> <<>>]
JNum(s)    == [t |-> "num",  s |-> s,    k |-> <<>>, a |-> <<>>]
JArr(a)    == [t |-> "arr",  s |-> <<>>, k |-> <<>>, a |-> a]
JObj(k, a) == [t |-> "obj",  s |-> <<>>, k |-> k,    a |-> a]
\* a body on which sonic.Get fails
JBad(s)    == [t |-> "bad",  s |-> s,    k |-> <<>>, a |-> <<>>]
\* the text of an object that is malformed after its members k, the text s
\* standing where more members or the closing brace would, as a sonic.Get
\* that does not validate returns it: the members before s are found, a
\* search that runs into s fails, and so does MarshalJSON.  sonic.Get
\* expects well-formed JSON; one that validates fails on this text, which
\* is then a JBad.
JTorn(k, a, s) == [t |-> "torn", s |-> s, k |-> k, a |-> a]

\* node.Get(key).Check() == nil
Has(n, key) == n.t \in {"obj", "torn"} /\ \E i \in 1..Len(n.k) : n.k[i] = key

\* the text of the body is JSON
WellFormed(n) == n.t \notin {"bad", "torn"}

\* root.MarshalJSON() returns an error
MarshalFails(n) == n.t = "torn"

\* node.Get(key), where it exists
Get(n, key) == n.a[CHOOSE i \in 1..Len(n.k) : n.k[i] = key /\ \A j \in 1..(i - 1) : n.k[j] # key]

\* node.Set(key, v) on an object that has the key
Set(n, key, v) == [n EXCEPT !.a = [i \in 1..Len(n.a) |-> IF n.k[i] = key THEN v ELSE n.a[i]]]

\* node.String() returns no error: a string, or a number cast to its text
Castable(n) == n.t \in {"str", "num", "null"}

\* the string node.String() returns
StringOf(n) == n.s

TypeText == <<"t","e","x","t">>

\* Has(n, key) with a V_STRING value
HasString(n, key) == Has(n, key) /\ Get(n, key).t = "str"

\* Has(n, key) with a V_ARRAY value
HasArray(n, key) == Has(n, key) /\ Get(n, key).t = "arr"

\* a block with a type and a text, both readable as strings, of type "text"
IsTextBlock(b) ==
    /\ Has(b, "type") /\ Has(b, "text")
    /\ Castable(Get(b, "type")) /\ Castable(Get(b, "text"))
    /\ StringOf(Get(b, "type")) = TypeText

RECURSIVE Raw(_)
RECURSIVE RawFrom(_, _)
\* the raw JSON text of the members of n from the i-th on, comma-separated
RawFrom(n, i) ==
    IF i > Len(n.a) THEN <<>>
    ELSE (IF i > 1 THEN <<",">> ELSE <<>>)
         \o (IF n.t = "obj" THEN <<"\"", n.k[i], "\"", ":">> ELSE <<>>)
         \o Raw(n.a[i]) \o RawFrom(n, i + 1)

\* node.Raw(): the JSON text of the node
Raw(n) ==
    CASE n.t = "str"  -> <<"\"">> \o n.s \o <<"\"">>
      [] n.t = "null" -> <<"n","u","l","l">>
      [] n.t = "arr"  -> <<"[">> \o RawFrom(n, 1) \o <<"]">>
      [] n.t = "obj"  -> <<"{">> \o RawFrom(n, 1) \o <<"}">>
      [] OTHER        -> n.s

----------------------------------------------------------------------------
(* UniversalProvider: request transforms.                                  *)

\* node.Set(key, NewString(r.result)) when Mask changed the text old
MaskedMember(n, key, old, r) ==
    [node |-> IF r.result # old THEN Set(n, key, JStr(r.result)) ELSE n, ctx |-> r.ctx]

\* Mask on the text of member key, written back when it changed
MaskMember(c, n, key) ==
    The({MaskedMember(n, key, StringOf(Get(n, key)), r) :
            r \in {Mask(rules, c, StringOf(Get(n, key)), <<>>)}})

Untouched(c, n) == [node |-> n, ctx |-> c]

\* the array member key of n replaced by the elements of r
WithArray(n, key, r) == [node |-> Set(n, key, JArr(r.a)), ctx |-> r.ctx]

\* the element n put in front of the elements of r
MaskEachJoin(n, r) == [a |-> <<n>> \o r.a, ctx |-> r.ctx]

RECURSIVE MaskEach(_, _, _, _)
RECURSIVE MaskEachAfter(_, _, _, _)
RECURSIVE ClaudeMessage(_, _)

\* the body of the message loop of applyPIITransform
PIIMessage(c, m) ==
    IF HasString(m, "content") THEN MaskMember(c, m, "content") ELSE Untouched(c, m)

\* a variant of the block loop that masks the text of a block of any type
ClaudeBlockAny(c, b) ==
    IF HasString(b, "text") THEN MaskMember(c, b, "text") ELSE Untouched(c, b)

\* the body of the block loop of applyClaudePIITransform
ClaudeBlock(c, b) ==
    IF IsTextBlock(b) THEN MaskMember(c, b, "text") ELSE Untouched(c, b)

\* one turn of a loop over array elements
MaskElem(loop, c, n) ==
    CASE loop = "pii"    -> PIIMessage(c, n)
      [] loop = "claude" -> ClaudeMessage(c, n)
      [] loop = "block"  -> ClaudeBlock(c, n)

\* the loop after its turn on element i returned r
MaskEachAfter(loop, r, arr, i) == MaskEachJoin(r.node, MaskEach(loop, r.ctx, arr, i + 1))

\* a loop over the elements of arr from index i on, in order on one context
MaskEach(loop, c, arr, i) ==
    IF i > Len(arr) THEN [a |-> <<>>, ctx |-> c]
    ELSE The({MaskEachAfter(loop, r, arr, i) : r \in {MaskElem(loop, c, arr[i])}})

\* the body of the message loop of applyClaudePIITransform
ClaudeMessage(c, m) ==
    IF HasString(m, "content") THEN MaskMember(c, m, "content")
    ELSE IF HasArray(m, "content")
         THEN WithArray(m, "content", MaskEach("block", c, Get(m, "content").a, 1))
    ELSE Untouched(c, m)

\* the messages step of both transforms, on the body and context of r
MaskMessages(loop, r) ==
    IF HasArray(r.node, "messages")
    THEN WithArray(r.node, "messages", MaskEach(loop, r.ctx, Get(r.node, "messages").a, 1))
    ELSE r

\* return root.MarshalJSON(), r holding the root and the context
Marshalled(r) ==
    IF MarshalFails(r.node) THEN [node |-> JNull, ctx |-> r.ctx, err |-> "syntax error"]
    ELSE [node |-> r.node, ctx |-> r.ctx, err |-> ""]

\* return body, nil
Returned(c, body) == [node |-> body, ctx |-> c, err |-> ""]

\* applyPIITransform: Mask on every string messages[i].content; a body that
\* does not parse or has no messages array is returned as it is
applyPIITransform(c, body) ==
    IF HasArray(body, "messages")
    THEN The({Marshalled(r) : r \in {MaskMessages("pii", Untouched(c, body))}})
    ELSE Returned(c, body)

\* applyClaudePIITransform: Mask on a string system, on every string
\* messages[i].content and on the text of every text block of an array
\* messages[i].content
applyClaudePIITransform(c, body) ==
    IF body.t = "bad" THEN Returned(c, body)
    ELSE The({Marshalled(MaskMessages("claude", r)) :
                 r \in {IF HasString(body, "system") THEN MaskMember(c, body, "system")
                        ELSE Untouched(c, body)}})

\* 2^53 + 1, which is no float64: it parses to 2^53
BigNumeral == Chars("9007199254740993")

\* strconv's shortest decimal form of the float64 a number parses to, on the
\* numerals of the model
FormatFloat(raw) ==
    CASE raw = <<"1", ".", "0">> -> <<"1">>
      [] raw = <<"5", ".", "5", "0">> -> <<"5", ".", "5">>
      [] raw = BigNumeral -> Chars("9007199254740992")
      [] OTHER -> raw

\* the position of the first "." of the path text t from position i on, or 0
NextDot(t, i) == MinOrZero({j \in i..Len(t) : t[j] = "."})

RECURSIVE PathKeysFrom(_, _)
\* the components of t from position i on, its next "." being at position j
PathKeysAt(t, i, j) ==
    IF j = 0 THEN <<Join(t, i, Len(t))>>
    ELSE <<Join(t, i, j - 1)>> \o PathKeysFrom(t, j + 1)

PathKeysFrom(t, i) == PathKeysAt(t, i, NextDot(t, i))

\* the components of a gjson / sjson path: the keys between the dots
PathKeys(path) == IF path = "" THEN <<>> ELSE PathKeysFrom(Chars(path), 1)

\* the array position a component stands for, counted from 1, or 0 for a
\* component that is no number
IndexOf(key) ==
    CASE key = "0" -> 1 [] key = "1" -> 2 [] key = "2" -> 3 [] key = "3" -> 4
      [] OTHER -> 0

\* the node has a child under the component
HasChild(n, key) ==
    \/ Has(n, key)
    \/ n.t = "arr" /\ IndexOf(key) \in 1..Len(n.a)

\* that child
Child(n, key) == IF n.t = "arr" THEN n.a[IndexOf(key)] ELSE Get(n, key)

RECURSIVE PathGetFrom(_, _, _)
\* the value under the components of keys from the i-th on
PathGetFrom(n, keys, i) ==
    IF i > Len(keys) THEN [exists |-> TRUE, node |-> n]
    ELSE IF HasChild(n, keys[i]) THEN PathGetFrom(Child(n, keys[i]), keys, i + 1)
    ELSE [exists |-> FALSE, node |-> JNull]

\* gjson.GetBytes(body, path): the value under the path, if there is one
PathGet(body, path) ==
    IF path = "" THEN [exists |-> FALSE, node |-> JNull]
    ELSE PathGetFrom(body, PathKeys(path), 1)

\* the value sjson writes for a gjson result: a string as a string, a number
\* through float64, anything else as its raw JSON
FieldValue(n) == IF n.t = "num" THEN JNum(FormatFloat(n.s)) ELSE n

RECURSIVE Build(_, _, _)
\* the value sjson builds for the components of keys from the i-th on that
\* the buffer does not have: an object per key, an array padded with nulls
\* per number
Build(keys, i, v) ==
    IF i > Len(keys) THEN v
    ELSE IF IndexOf(keys[i]) > 0
    THEN JArr(Rep(JNull, IndexOf(keys[i]) - 1) \o <<Build(keys, i + 1, v)>>)
    ELSE JObj(<<keys[i]>>, <<Build(keys, i + 1, v)>>)

\* the child of n under the component replaced by what r holds
WithChild(n, key, r) ==
    IF r.err # "" THEN [node |-> n, err |-> r.err]
    ELSE IF n.t = "arr" THEN [node |-> [n EXCEPT !.a[IndexOf(key)] = r.node], err |-> ""]
    ELSE [node |-> Set(n, key, r.node), err |-> ""]

RECURSIVE PathSetFrom(_, _, _, _)
\* sjson's write under the components of keys from the i-th on: an existing
\* child is descended into and replaced at the last component; a missing one
\* is appended to an object or to an array; a value that is neither is
\* replaced by a new object or array
PathSetFrom(n, keys, i, v) ==
    IF i > Len(keys) THEN [node |-> v, err |-> ""]
    ELSE IF HasChild(n, keys[i])
    THEN WithChild(n, keys[i], PathSetFrom(Child(n, keys[i]), keys, i + 1, v))
    ELSE CASE n.t = "obj" ->
                [node |-> JObj(Append(n.k, keys[i]), Append(n.a, Build(keys, i + 1, v))),
                 err |-> ""]
           [] n.t = "arr" ->
                IF IndexOf(keys[i]) = 0
                THEN [node |-> n, err |-> "cannot set array element for non-numeric key"]
                ELSE [node |-> JArr(n.a \o Rep(JNull, IndexOf(keys[i]) - 1 - Len(n.a))
                                        \o <<Build(keys, i + 1, v)>>),
                      err |-> ""]
           [] OTHER -> [node |-> Build(keys, i, v), err |-> ""]

\* sjson.SetBytes(buf, path, v); an empty path is an error
PathSet(buf, path, v) ==
    IF path = "" THEN [node |-> buf, err |-> "path cannot be empty"]
    ELSE PathSetFrom(buf, PathKeys(path), 1, v)

RECURSIVE FieldMapFrom(_, _, _, _, _)
\* the loop of applyFieldMapTransform from entry i of the given order on:
\* the source read from body, the target written into the result r.node
FieldMapFrom(body, config, order, i, r) ==
    IF i > Len(order) \/ r.err # "" THEN r
    ELSE FieldMapFrom(body, config, order, i + 1,
            IF PathGet(body, config[order[i]]).exists
            THEN PathSet(r.node, order[i], FieldValue(PathGet(body, config[order[i]]).node))
            ELSE r)

\* applyFieldMapTransform, the mapping ranged over in the given order
applyFieldMapTransform(body, config, order) ==
    FieldMapFrom(body, config, order, 1, [node |-> body, err |-> ""])

\* the characters of an object key
KeyText(k) == Chars(k)

RECURSIVE GoPrintAll(_, _, _)
RECURSIVE GoPrint(_, _)
\* fmt's %v of the Go value a JSON node unmarshals to: a string as it is, a
\* number in its shortest form, nil as <nil>, a slice as [a b], a map as
\* map[k:v] (top being FALSE inside a slice or map)
GoPrint(n, top) ==
    CASE n.t = "str" -> n.s
      [] n.t = "num" -> FormatFloat(n.s)
      [] n.t = "arr" -> <<"[">> \o GoPrintAll(n, 1, FALSE) \o <<"]">>
      [] n.t = "obj" -> <<"m", "a", "p", "[">> \o GoPrintAll(n, 1, TRUE) \o <<"]">>
      [] OTHER -> IF top THEN Chars("<no value>") ELSE Chars("<nil>")

\* the elements of a slice or map from the i-th on, separated by spaces
GoPrintAll(n, i, keyed) ==
    IF i > Len(n.a) THEN <<>>
    ELSE (IF i > 1 THEN <<" ">> ELSE <<>>)
         \o (IF keyed THEN KeyText(n.k[i]) \o <<":">> ELSE <<>>)
         \o GoPrint(n.a[i], FALSE)
         \o GoPrintAll(n, i + 1, keyed)

\* the templates of the model
TmplQuery  == "{\"inputs\":{},\"query\":\"{{index (index .messages 0) \"content\"}}\",\"response_mode\":\"blocking\"}"
TmplOpen   == "{\"query\":\"{{\"}"
TmplText   == "query: {{.model}}"

\* template.Parse: the template compiles
TemplateParses(tmpl) == tmpl # TmplOpen

\* tmpl.Execute on the map the body unmarshals to: the template runs without
\* error.  The index calls of TmplQuery need messages to be a non-empty
\* array whose first element is a map.
TemplateExecutes(tmpl, data) ==
    tmpl = TmplQuery =>
        /\ HasArray(data, "messages")
        /\ Len(Get(data, "messages").a) > 0
        /\ Get(data, "messages").a[1].t = "obj"

\* the value an action of the template prints
TemplateValue(tmpl, data) ==
    IF tmpl = TmplQuery
    THEN (IF Has(Get(data, "messages").a[1], "content")
          THEN GoPrint(Get(Get(data, "messages").a[1], "content"), TRUE)
          ELSE Chars("<no value>"))
    ELSE (IF Has(data, "model") THEN GoPrint(Get(data, "model"), TRUE) ELSE Chars("<no value>"))

\* a text can stand between the quotes of a JSON string as it is
PlainInJSON(text) == \A i \in 1..Len(text) : text[i] \notin {"\"", "\\", "\n", "\t", "\r", "\f"}

\* sonic.Valid on the output of the template, v being the value printed
TemplateOutputValid(tmpl, v) == tmpl = TmplQuery /\ PlainInJSON(v)

\* the body the output of the template parses to
TemplateOutput(tmpl, v) ==
    JObj(<<"inputs", "query", "response_mode">>,
         <<JObj(<<>>, <<>>), JStr(v), JStr(Chars("blocking"))>>)

\* the last steps of applyTemplateTransform, v being the value printed
TemplateResult(tmpl, v) ==
    IF TemplateOutputValid(tmpl, v) THEN [node |-> TemplateOutput(tmpl, v), err |-> ""]
    ELSE [node |-> JNull, err |-> "template output is not valid JSON"]

\* applyTemplateTransform: without a template the body as it is; else the
\* body unmarshalled into a map, the template parsed, executed and its
\* output validated
applyTemplateTransform(body, config) ==
    IF config.template = "" THEN [node |-> body, err |-> ""]
    ELSE IF body.t \notin {"obj", "null"}
         THEN [node |-> JNull, err |-> "failed to parse body for template"]
    ELSE IF ~TemplateParses(config.template)
         THEN [node |-> JNull, err |-> "invalid template"]
    ELSE IF ~TemplateExecutes(config.template, body)
         THEN [node |-> JNull, err |-> "template execution failed"]
    ELSE TemplateResult(config.template, TemplateValue(config.template, body))

\* a step of a route: its type, its config and the order in which the run
\* ranges over the config map
Step(type, config, order) == [Type |-> type, Config |-> config, Order |-> order]

RECURSIVE TransformsFrom(_, _, _)
RECURSIVE TransformsAfter(_, _, _, _)

\* a variant of the step loop that goes on after a failed step
TransformsContinue(steps, i, c, t) ==
    TransformsFrom(steps, i + 1, [node |-> t.node, ctx |-> c])

\* the step loop after step i returned t on the context c: an error ends
\* the loop
TransformsAfter(steps, i, c, t) ==
    IF t.err # ""
    THEN [node |-> JNull, ctx |-> c, err |-> "transform " \o steps[i].Type \o " failed: " \o t.err]
    ELSE TransformsFrom(steps, i + 1, [node |-> t.node, ctx |-> c])

\* the step loop of applyRequestTransforms from step i on; r holds the body
\* and the context so far.  A step of an unknown type is skipped.
TransformsFrom(steps, i, r) ==
    IF i > Len(steps) THEN [node |-> r.node, ctx |-> r.ctx, err |-> ""]
    ELSE CASE steps[i].Type = "pii" ->
                The({TransformsAfter(steps, i, t.ctx, t) :
                        t \in {applyPIITransform(r.ctx, r.node)}})
           [] steps[i].Type = "pii_claude" ->
                The({TransformsAfter(steps, i, t.ctx, t) :
                        t \in {applyClaudePIITransform(r.ctx, r.node)}})
           [] steps[i].Type = "field_map" ->
                TransformsAfter(steps, i, r.ctx,
                    applyFieldMapTransform(r.node, steps[i].Config, steps[i].Order))
           [] steps[i].Type = "template" ->
                TransformsAfter(steps, i, r.ctx, applyTemplateTransform(r.node, steps[i].Config))
           [] OTHER -> TransformsFrom(steps, i + 1, r)

\* a variant that runs the steps from the last to the first
applyTransformsBackwards(steps, c, body) ==
    TransformsFrom([i \in 1..Len(steps) |-> steps[Len(steps) + 1 - i]], 1, Untouched(c, body))

\* applyRequestTransforms: the body, the context and the error returned
applyRequestTransforms(steps, c, body) == TransformsFrom(steps, 1, Untouched(c, body))

----------------------------------------------------------------------------
(* UniversalProvider: response transforms.                                 *)

\* Unmask on the text of member key, written back when it changed
UnmaskedMember(n, key, old, new) == IF new # old THEN Set(n, key, JStr(new)) ELSE n

UnmaskMember(c, n, key) ==
    UnmaskedMember(n, key, StringOf(Get(n, key)), Unmask(c, StringOf(Get(n, key))))

\* a variant of the loop body that also unmasks message.role
UnmaskChoiceAndRole(c, choice) ==
    IF /\ Has(choice, "message")
       /\ HasString(Get(choice, "message"), "content")
       /\ HasString(Get(choice, "message"), "role")
    THEN Set(choice, "message",
             UnmaskMember(c, UnmaskMember(c, Get(choice, "message"), "content"), "role"))
    ELSE choice

\* the body of the choices loop: message.content, if a string
UnmaskChoice(c, choice) ==
    IF Has(choice, "message") /\ HasString(Get(choice, "message"), "content")
    THEN Set(choice, "message", UnmaskMember(c, Get(choice, "message"), "content"))
    ELSE choice

\* the body of the content loop: the text of a text block
UnmaskBlock(c, b) == IF IsTextBlock(b) THEN UnmaskMember(c, b, "text") ELSE b

\* step 1 of applyResponseTransforms: the OpenAI shape
UnmaskChoices(c, root) ==
    IF HasArray(root, "choices")
    THEN Set(root, "choices",
             JArr([i \in 1..Len(Get(root, "choices").a) |-> UnmaskChoice(c, Get(root, "choices").a[i])]))
    ELSE root

\* step 2 of applyResponseTransforms: the Claude shape
UnmaskContent(c, root) ==
    IF HasArray(root, "content")
    THEN Set(root, "content",
             JArr([i \in 1..Len(Get(root, "content").a) |-> UnmaskBlock(c, Get(root, "content").a[i])]))
    ELSE root

\* applyResponseTransforms; a body that does not parse is returned as it is
applyResponseTransforms(c, body) ==
    IF body.t = "bad" THEN body ELSE UnmaskContent(c, UnmaskChoices(c, body))

\* the error applyResponseTransforms returns: that of root.MarshalJSON()
ResponseError(body) == IF MarshalFails(body) THEN "syntax error" ELSE ""

\* a Go error of the provider: the text before the first colon, the status
\* code the text prints (0: none) and the message after it
Error(kind, status, msg) == [kind |-> kind, status |-> status, msg |-> msg]

\* nil
NoError == Error("", 0, <<>>)

\* node.Get(key).String(): the text of the member, "" on any error
MemberString(n, key) ==
    IF Has(n, key) /\ Castable(Get(n, key)) THEN StringOf(Get(n, key)) ELSE <<>>

\* the message handleHTTPError extracts: error.message, else message
ErrorMessage(body) ==
    IF body.t = "bad" THEN <<>>
    ELSE IF Has(body, "error") /\ MemberString(Get(body, "error"), "message") # <<>>
         THEN MemberString(Get(body, "error"), "message")
    ELSE MemberString(body, "message")

\* the switch of handleHTTPError on the extracted message
ClassifyHTTPError(statusCode, errMsg) ==
    CASE statusCode = 401 -> Error("unauthorized", 0, errMsg)
      [] statusCode = 429 -> Error("rate limit exceeded", 0, errMsg)
      [] statusCode = 400 -> Error("bad request", 0, errMsg)
      [] OTHER            -> Error("HTTP", statusCode, errMsg)

\* handleHTTPError: without an extracted message "HTTP <status>: <body>"
HTTPErrorWith(statusCode, body, errMsg) ==
    IF errMsg = <<>> THEN Error("HTTP", statusCode, Raw(body))
    ELSE ClassifyHTTPError(statusCode, errMsg)

handleHTTPError(statusCode, body) == HTTPErrorWith(statusCode, body, ErrorMessage(body))

----------------------------------------------------------------------------
(* Scanner runs: any sequence of Mask and Unmask calls on one context,     *)
(* over texts built from a few fragments.                                  *)

\* fragments of text fed to the scanner in one run
MaxFrags == 2

FragEmail    == <<"a","@","b",".","c","o">>
FragPhone    == <<"1","3","8","0","0","1","3","8","0","0","0">>
FragKey      == <<"s","k","-">> \o Rep("a", 20)
FragAtDomain == <<"@","b",".","c","o">>
FragSpace    == <<" ">>
FragSpacePhone == FragSpace \o FragPhone
\* placeholder-shaped text whose key no vault holds
FragUnknown  == PlaceholderPrefix \o <<"a","b","c","d","e","f","0","1","2","3","4","5">> \o <<"_","_">>
\* placeholder-shaped text typed by the client: the placeholder of FragEmail
FragKnown    == generatePlaceholder(FragEmail)

Frags == {FragEmail, FragSpacePhone, FragKey, FragAtDomain, FragUnknown, FragKnown}

FragSeqs(n) == UNION {[1..k -> Frags] : k \in 1..n}

RECURSIVE Concat(_, _)
Concat(fs, k) == IF k > Len(fs) THEN <<>> ELSE fs[k] \o Concat(fs, k + 1)

\* no scanner call made
ScanIdle ==
    /\ input = <<>>
    /\ output = <<>>
    /\ lastOp = "none"
    /\ fed = <<>>
    /\ used = 0
    /\ ruleCalls = <<>>

\* no request handed to a provider
SendIdle ==
    /\ transforms = <<>>
    /\ pc = "idle"
    /\ reqBody = JNull
    /\ upBody = JNull
    /\ upResp = JNull
    /\ result = [ok |-> FALSE, body |-> JNull, err |-> NoError]
    /\ upStatus = 0
    /\ upCalls = 0

NoHeaders == [n \in {} |-> <<>>]

\* no engine configured
RouteIdle ==
    /\ routes = <<>>
    /\ matchers = [id \in {} |-> <<>>]
    /\ enginePc = "idle"
    /\ findBody = JNull
    /\ findResult = [err |-> FALSE, route |-> 0]

\* no upstream request under construction
HeaderIdle ==
    /\ headerPolicy = [Allow |-> <<>>, Set |-> [n \in {} |-> ""], Remove |-> <<>>]
    /\ upstream = [BaseURL |-> "", Path |-> "", AuthStrategy |-> "", TokenEnv |-> "",
                   HeaderName |-> ""]
    /\ environ = [n \in {} |-> ""]
    /\ originalHeaders = NoHeaders
    /\ upstreamHeaders = NoHeaders
    /\ upstreamURL = [url |-> "", query |-> ""]
    /\ headerPc = "idle"

\* no request at the gateway
GatewayIdle == reqs = <<>>

\* what Execute returned: nothing yet
NoRun == [phase |-> "", body |-> <<>>, calls |-> <<>>, ok |-> FALSE, result |-> <<>>]

\* NewPipeline(): no processor registered, nothing executed
PipelineIdle ==
    /\ processors = <<>>
    /\ pipeRun = NoRun

ScanInit ==
    /\ rules = NewScanner
    /\ ctx = NewGatewayContext
    /\ ScanIdle
    /\ SendIdle
    /\ RouteIdle
    /\ HeaderIdle
    /\ GatewayIdle
    /\ PipelineIdle

\* a scanner call on the text s of n fresh fragments returned the text out
\* and left the context c
ScanStep(op, s, n, out, c) ==
    /\ used + n <= MaxFrags
    /\ input' = s
    /\ output' = out
    /\ ctx' = c
    /\ lastOp' = op
    /\ fed' = IF op = "Mask" THEN Append(fed, s) ELSE fed
    /\ used' = used + n
    /\ UNCHANGED <<rules, ruleCalls, sendVars, routeVars, headerVars, gatewayVars, pipelineVars>>

ScanMaskWith(s, n, r) == ScanStep("Mask", s, n, r.result, r.ctx)

\* scanner.Mask(ctx, s, nil) on a fresh text s
ScanMask(fs) == ScanMaskWith(Concat(fs, 1), Len(fs), Mask(rules, ctx, Concat(fs, 1), <<>>))

ScanMaskAgainWith(r) == ScanStep("MaskAgain", output, 0, r.result, r.ctx)

\* scanner.Mask(ctx, m, nil) on the text m the last Mask returned
ScanMaskAgain == lastOp = "Mask" /\ ScanMaskAgainWith(Mask(rules, ctx, output, <<>>))

\* scanner.Unmask(ctx, m) on the text m the last Mask returned
ScanUnmaskMasked ==
    lastOp = "Mask" /\ ScanStep("UnmaskMasked", output, 0, Unmask(ctx, output), ctx)

\* scanner.Unmask(ctx, s) on any text s
ScanUnmask(fs) == ScanStep("Unmask", Concat(fs, 1), Len(fs), Unmask(ctx, Concat(fs, 1)), ctx)

\* scanner.Unmask(nil, s)
ScanUnmaskNil(fs) ==
    ScanStep("UnmaskNil", Concat(fs, 1), Len(fs), Unmask(NilContext, Concat(fs, 1)), ctx)

ScanNext ==
    \/ \E fs \in FragSeqs(MaxFrags - used) : ScanMask(fs)
    \/ ScanMaskAgain
    \/ ScanUnmaskMasked
    \/ \E fs \in FragSeqs(MaxFrags - used) : ScanUnmask(fs)
    \/ \E fs \in FragSeqs(MaxFrags - used) : ScanUnmaskNil(fs)

SpecScan == ScanInit /\ [][ScanNext]_vars

----------------------------------------------------------------------------
(* One request through UniversalProvider.Send: the request transforms, the *)
(* call to the upstream, the response transforms.                          *)

PEmail == generatePlaceholder(FragEmail)
PPhone == generatePlaceholder(FragPhone)

\* a message with a role and the content node c
Msg(c) == JObj(<<"role", "content">>, <<JStr(<<"u">>), c>>)

\* a Claude block of type "text"
TextBlock(s) == JObj(<<"type", "text">>, <<JStr(TypeText), JStr(s)>>)

\* an OpenAI choice whose message has the role s and the content node c
Choice(s, c) ==
    JObj(<<"index", "message">>, <<JNum(<<"0">>), JObj(<<"role", "content">>, <<JStr(s), c>>)>>)

\* request bodies
BodyOpenAI  == JObj(<<"model", "messages">>, <<JStr(<<"m">>), JArr(<<Msg(JStr(FragEmail))>>)>>)
BodyUser    == JObj(<<"model", "user", "messages">>,
                    <<JStr(<<"m">>), JStr(FragEmail), JArr(<<Msg(JStr(FragEmail))>>)>>)
BodyClaude  == JObj(<<"system", "messages">>,
                    <<JStr(FragPhone),
                      JArr(<<Msg(JArr(<<TextBlock(FragEmail),
                                        JObj(<<"type", "source">>, <<JStr(<<"i">>), JStr(FragKey)>>)>>)),
                             Msg(JStr(FragEmail \o FragSpace \o FragPhone))>>)>>)
BodyMixed   == JObj(<<"messages">>,
                    <<JArr(<<JStr(FragEmail), JObj(<<"role">>, <<JStr(<<"u">>)>>),
                             Msg(JNum(<<"5">>)), Msg(JStr(FragPhone))>>)>>)
BodyNoArray == JObj(<<"messages">>, <<JStr(FragEmail)>>)
BodyClean   == JObj(<<"messages">>, <<JArr(<<Msg(JStr(<<"h","i">>))>>)>>)
BodyBad     == JBad(FragEmail)
BodyQuote   == JObj(<<"model", "messages">>,
                    <<JNum(<<"1", ".", "0">>),
                      JArr(<<Msg(JStr(<<"\"">> \o FragEmail \o <<"\"">>))>>)>>)

\* a Claude body with a system that is no string, a block of another type
\* that holds a text, a text block without text, a text block whose text is
\* a number, and a content that is a number
BodyBlocks  == JObj(<<"system", "model", "messages">>,
                    <<JNum(<<"5">>), JStr(FragEmail),
                      JArr(<<Msg(JArr(<<JObj(<<"type", "text">>, <<JStr(TypeText), JNum(FragPhone)>>),
                                        JObj(<<"type", "text">>, <<JStr(Chars("image")), JStr(FragEmail)>>),
                                        JObj(<<"type">>, <<JStr(TypeText)>>)>>)),
                             Msg(JNum(<<"5">>))>>)>>)

\* the text {"messages":[{"role":"u","content":"a@b.co"}],"x":}
BodyTorn    == JTorn(<<"messages">>, <<JArr(<<Msg(JStr(FragEmail))>>)>>, Chars("\"x\":}"))

Bodies ==
    {BodyOpenAI, BodyUser, BodyClaude, BodyMixed, BodyNoArray, BodyClean, BodyBad, BodyQuote,
     BodyBlocks, BodyTorn}

\* bodies of upstream replies
RespOpenAI   == JObj(<<"id", "choices">>,
                     <<JStr(PEmail),
                       JArr(<<Choice(PEmail, JStr(<<"t","o"," ">> \o PEmail \o FragUnknown)),
                              JObj(<<"message">>, <<JStr(PEmail)>>),
                              JStr(PEmail),
                              Choice(<<"a">>, JArr(<<JStr(PEmail)>>))>>)>>)
RespClaude   == JObj(<<"role", "content">>,
                     <<JStr(PEmail),
                       JArr(<<TextBlock(PEmail \o PPhone),
                              JObj(<<"type", "text">>, <<JStr(<<"t","o","o","l">>), JStr(PEmail)>>),
                              JObj(<<"type", "text">>, <<JStr(TypeText), JNum(<<"5">>)>>),
                              JObj(<<"text">>, <<JStr(PEmail)>>),
                              JStr(PEmail)>>)>>)
RespBoth     == JObj(<<"choices", "content">>,
                     <<JArr(<<Choice(<<"a">>, JStr(PPhone))>>), JArr(<<TextBlock(PEmail)>>)>>)
RespNoArrays == JObj(<<"choices", "content">>, <<JStr(PEmail), JStr(PEmail)>>)
RespOther    == JObj(<<"output">>, <<JStr(PEmail)>>)
RespArray    == JArr(<<JStr(PEmail)>>)
RespBad      == JBad(PEmail)

\* the text {"choices":[{"message":{"role":"a","content":"<placeholder>"}}],"x":}
RespTorn     == JTorn(<<"choices">>, <<JArr(<<Choice(<<"a">>, JStr(PEmail))>>)>>, Chars("\"x\":}"))

Resps == {RespOpenAI, RespClaude, RespBoth, RespNoArrays, RespOther, RespArray, RespBad, RespTorn}

\* a step without config
Plain(type) == Step(type, [n \in {} |-> ""], <<>>)

\* a template step
Template(tmpl) == Step("template", [template |-> tmpl], <<>>)

\* a field_map step of one entry, target <- source
FieldMap(target, source) == Step("field_map", [n \in {target} |-> source], <<target>>)

\* the step lists of a route: the four step types and a type the provider
\* does not know
TransformLists ==
    {<<>>, <<Plain("pii")>>, <<Plain("pii_claude")>>, <<Plain("audit"), Plain("pii")>>,
     <<Plain("pii"), Plain("pii_claude")>>, <<Plain("pii_claude"), Plain("pii")>>,
     <<Plain("pii"), Template(TmplQuery)>>, <<Template(TmplQuery), Plain("pii")>>,
     <<Template(TmplOpen), Plain("pii")>>, <<Plain("pii"), Template(TmplText)>>,
     <<Template("")>>,
     <<FieldMap("query", "model"), Plain("pii")>>, <<Plain("pii"), FieldMap("", "model")>>,
     <<Plain("pii"), FieldMap("query", "messages.0.content")>>}

\* the statuses of an upstream reply other than 200
ErrorStatuses == {201, 400, 401, 429, 500}

\* bodies of upstream replies with another status
ErrOpenAI  == JObj(<<"error">>, <<JObj(<<"message", "code">>, <<JStr(Chars("denied")), JNum(<<"7">>)>>)>>)
ErrSimple  == JObj(<<"message">>, <<JStr(Chars("slow down"))>>)
ErrSecond  == JObj(<<"error", "message">>, <<JStr(Chars("x")), JStr(Chars("second"))>>)
ErrNoText  == JObj(<<"error">>, <<JObj(<<"message">>, <<JArr(<<>>)>>)>>)
ErrBad     == JBad(Chars("<html>"))

ErrResps == {ErrOpenAI, ErrSimple, ErrSecond, ErrNoText, ErrBad}

SendInit ==
    /\ rules = NewScanner
    /\ ctx = NewGatewayContext
    /\ ScanIdle
    /\ transforms \in TransformLists
    /\ pc = "ready"
    /\ reqBody = JNull
    /\ upBody = JNull
    /\ upResp = JNull
    /\ result = [ok |-> FALSE, body |-> JNull, err |-> NoError]
    /\ upStatus = 0
    /\ upCalls = 0
    /\ RouteIdle
    /\ HeaderIdle
    /\ GatewayIdle
    /\ PipelineIdle

\* step 1 of Send failed: Send returns the error, nothing goes on the wire
SendTransformError(body, r) ==
    /\ r.err # ""
    /\ reqBody' = body
    /\ ctx' = r.ctx
    /\ result' = [ok |-> FALSE, body |-> JNull, err |-> Error("transform error", 0, Chars(r.err))]
    /\ pc' = "done"
    /\ UNCHANGED <<upBody, upCalls>>

\* step 1 of Send succeeded: step 2 puts the transformed body on the wire
SendTransformed(body, r) ==
    /\ r.err = ""
    /\ reqBody' = body
    /\ ctx' = r.ctx
    /\ upBody' = r.node
    /\ upCalls' = upCalls + 1
    /\ pc' = "upstream"
    /\ UNCHANGED result

\* steps 1 and 2 of Send up to the request on the wire, r being what the
\* request transforms returned
SendRequestWith(body, r) ==
    /\ pc = "ready"
    /\ SendTransformError(body, r) \/ SendTransformed(body, r)
    /\ UNCHANGED <<rules, ruleCalls, input, output, lastOp, fed, used, transforms, upResp, upStatus>>
    /\ UNCHANGED <<routeVars, headerVars, gatewayVars, pipelineVars>>

SendRequest(body) == SendRequestWith(body, applyRequestTransforms(transforms, ctx, body))

\* the upstream answered 200 with the body resp: step 3 of Send
SendUpstreamOK(resp) ==
    /\ pc = "upstream"
    /\ upResp' = resp
    /\ upStatus' = 200
    /\ result' = IF ResponseError(resp) # ""
                 THEN [ok |-> FALSE, body |-> JNull,
                       err |-> Error("response transform error", 0, Chars(ResponseError(resp)))]
                 ELSE [ok |-> TRUE, body |-> applyResponseTransforms(ctx, resp), err |-> NoError]
    /\ pc' = "done"
    /\ UNCHANGED <<scanVars, transforms, reqBody, upBody, upCalls, routeVars, headerVars, gatewayVars, pipelineVars>>

\* the upstream answered another status: Send returns the error of
\* handleHTTPError
SendUpstreamError(status, resp) ==
    /\ pc = "upstream"
    /\ upResp' = resp
    /\ upStatus' = status
    /\ result' = [ok |-> FALSE, body |-> JNull, err |-> handleHTTPError(status, resp)]
    /\ pc' = "done"
    /\ UNCHANGED <<scanVars, transforms, reqBody, upBody, upCalls, routeVars, headerVars, gatewayVars, pipelineVars>>

\* the call failed or the reply could not be read: Send returns the error of
\* client.Do or io.ReadAll
SendUpstreamFailed ==
    /\ pc = "upstream"
    /\ result' = [ok |-> FALSE, body |-> JNull,
                  err |-> Error("failed to send request", 0, <<>>)]
    /\ pc' = "done"
    /\ UNCHANGED <<scanVars, transforms, reqBody, upBody, upResp, upStatus, upCalls>>
    /\ UNCHANGED <<routeVars, headerVars, gatewayVars, pipelineVars>>

SendNext ==
    \/ \E body \in Bodies : SendRequest(body)
    \/ \E resp \in Resps : SendUpstreamOK(resp)
    \/ \E status \in ErrorStatuses : \E resp \in ErrResps : SendUpstreamError(status, resp)
    \/ SendUpstreamFailed

SpecSend == SendInit /\ [][SendNext]_vars

----------------------------------------------------------------------------
(* Engine: NewEngine and FindRoute.                                        *)

\* regexp.Compile succeeds on the pattern
Compiles(pattern) == pattern # "("

\* re.MatchString(value): an unanchored search, by the pattern's source text
MatchString(pattern, value) ==
    CASE pattern = "^gpt-"    -> Lit(value, 1, <<"g","p","t","-">>)
      [] pattern = "^claude-" -> Lit(value, 1, <<"c","l","a","u","d","e","-">>)
      [] pattern = "gpt"      -> Occurs(<<"g","p","t">>, value)
      [] OTHER -> FALSE

\* the value FindRoute matches: node.String(), or the raw text on error
ValueText(n) == IF Castable(n) THEN StringOf(n) ELSE Raw(n)

\* the matcher loop of FindRoute: every compiled entry of ms matches the
\* value at its path in the body
AllMatch(ms, body) ==
    \A path \in DOMAIN ms :
        Has(body, path) /\ MatchString(ms[path], ValueText(Get(body, path)))

\* the matchers map NewEngine builds: under each id, the matcher of the
\* last route that carries it
NewEngine(rts) ==
    [id \in {rts[i].ID : i \in 1..Len(rts)} |->
        rts[MaxOrZero({i \in 1..Len(rts) : rts[i].ID = id})].Matcher]

\* NewEngine returns no error: every pattern compiles
NewEngineOk(rts) ==
    \A i \in 1..Len(rts) : \A path \in DOMAIN rts[i].Matcher : Compiles(rts[i].Matcher[path])

\* Engine.FindRoute: a parse error, or the first route in declared order
\* whose matchers, looked up by its id, all match (0: none)
FindRoute(rts, ms, body) ==
    IF body.t = "bad" THEN [err |-> TRUE, route |-> 0]
    ELSE [err |-> FALSE,
          route |-> MinOrZero({i \in 1..Len(rts) : AllMatch(ms[rts[i].ID], body)})]

\* routes of a configuration
MaxRoutes == 2

ModelGpt    == <<"g","p","t","-","4","o">>
ModelClaude == <<"c","l","a","u","d","e","-","3">>

Matchers ==
    { [p \in {} |-> ""],
      [p \in {"model"} |-> "^gpt-"],
      [p \in {"model"} |-> "^claude-"],
      [p \in {"model", "user"} |-> IF p = "model" THEN "gpt" ELSE "^gpt-"],
      [p \in {"model"} |-> "("] }

RouteSet == [ID : {"a", "b"}, Matcher : Matchers]

RouteBodies ==
    { JObj(<<"model">>, <<JStr(ModelGpt)>>),
      JObj(<<"model">>, <<JStr(ModelClaude)>>),
      JObj(<<"model", "user">>, <<JStr(ModelClaude), JStr(ModelGpt)>>),
      JObj(<<"model", "user">>, <<JArr(<<JStr(ModelGpt)>>), JStr(ModelGpt)>>),
      JObj(<<"messages">>, <<JArr(<<>>)>>),
      JArr(<<JNum(<<"1">>)>>),
      JBad(<<"{">>) }

RouteInit ==
    /\ rules = NewScanner
    /\ ctx = NewGatewayContext
    /\ ScanIdle
    /\ SendIdle
    /\ HeaderIdle
    /\ GatewayIdle
    /\ PipelineIdle
    /\ routes \in UNION {[1..n -> RouteSet] : n \in 1..MaxRoutes}
    /\ matchers = [id \in {} |-> <<>>]
    /\ enginePc = "config"
    /\ findBody = JNull
    /\ findResult = [err |-> FALSE, route |-> 0]

\* engine.NewEngine(config)
RouteNewEngine ==
    /\ enginePc = "config"
    /\ enginePc' = IF NewEngineOk(routes) THEN "ready" ELSE "failed"
    /\ matchers' = IF NewEngineOk(routes) THEN NewEngine(routes) ELSE matchers
    /\ UNCHANGED <<routes, findBody, findResult, scanVars, sendVars, headerVars, gatewayVars, pipelineVars>>

\* engine.FindRoute(body)
RouteFind(body) ==
    /\ enginePc \in {"ready", "found"}
    /\ findBody' = body
    /\ findResult' = FindRoute(routes, matchers, body)
    /\ enginePc' = "found"
    /\ UNCHANGED <<routes, matchers, scanVars, sendVars, headerVars, gatewayVars, pipelineVars>>

RouteNext ==
    \/ RouteNewEngine
    \/ \E body \in RouteBodies : RouteFind(body)

SpecRoute == RouteInit /\ [][RouteNext]_vars

----------------------------------------------------------------------------
(* UniversalProvider: upstream headers.  An http.Header is a function from *)
(* canonical header names to the sequence of values under that name.       *)

\* textproto.CanonicalMIMEHeaderKey, on the names of the model
Canon(name) ==
    CASE name = "authorization" -> "Authorization"
      [] name = "content-type"  -> "Content-Type"
      [] name = "x-api-key"     -> "X-Api-Key"
      [] name = "x-request-id"  -> "X-Request-Id"
      [] name = "x-tenant"      -> "X-Tenant"
      [] OTHER -> name

\* Header.Get: the first value under the name, or ""
HGet(h, name) == IF Canon(name) \in DOMAIN h THEN h[Canon(name)][1] ELSE ""

\* Header.Set: the values under the name replaced by the one value
HSet(h, name, v) ==
    [n \in (DOMAIN h) \cup {Canon(name)} |-> IF n = Canon(name) THEN <<v>> ELSE h[n]]

\* Header.Add of every value of every name of src, in order: the values
\* appended to those under the name
AddAll(h, src) ==
    [n \in (DOMAIN h) \cup (DOMAIN src) |->
        (IF n \in DOMAIN h THEN h[n] ELSE <<>>) \o (IF n \in DOMAIN src THEN src[n] ELSE <<>>)]

\* Header.Del
HDel(h, name) == [n \in (DOMAIN h) \ {Canon(name)} |-> h[n]]

\* os.Getenv
Getenv(en, name) == IF name \in DOMAIN en THEN en[name] ELSE ""

\* buildAuthHeaders: nothing without a token; the bearer form under
\* Authorization for bearer and for any strategy but header
buildAuthHeaders(up, en) ==
    IF Getenv(en, up.TokenEnv) = "" THEN NoHeaders
    ELSE IF up.AuthStrategy = "header"
         THEN HSet(NoHeaders, IF up.HeaderName = "" THEN "Authorization" ELSE up.HeaderName,
                   Getenv(en, up.TokenEnv))
    ELSE HSet(NoHeaders, "Authorization", "Bearer " \o Getenv(en, up.TokenEnv))

RECURSIVE QueryEscape(_, _)
\* url.QueryEscape from the k-th character on: a space becomes "+", "&" and
\* "=" are percent-encoded, letters, digits, "-", "_", "." and "~" are kept
QueryEscape(v, k) ==
    IF k > Len(v) THEN ""
    ELSE (CASE SubSeq(v, k, k) = " " -> "+"
            [] SubSeq(v, k, k) = "&" -> "%26"
            [] SubSeq(v, k, k) = "=" -> "%3D"
            [] OTHER -> SubSeq(v, k, k)) \o QueryEscape(v, k + 1)

\* the base URL of sendToUpstream: the variable's value for env:VAR
baseURLOf(up, en) ==
    IF Len(up.BaseURL) >= 4 /\ SubSeq(up.BaseURL, 1, 4) = "env:"
    THEN Getenv(en, SubSeq(up.BaseURL, 5, Len(up.BaseURL)))
    ELSE up.BaseURL

\* the URL of sendToUpstream: base URL and path (by default
\* /chat/completions), and for the query strategy with a token the query
\* api_key=<token>
buildUpstreamURL(up, en) ==
    [url   |-> baseURLOf(up, en) \o (IF up.Path = "" THEN "/chat/completions" ELSE up.Path),
     query |-> IF up.AuthStrategy = "query" /\ Getenv(en, up.TokenEnv) # ""
               THEN "api_key=" \o QueryEscape(Getenv(en, up.TokenEnv), 1)
               ELSE ""]

\* a variant of step 1 that copies every header of the client
AllowEverything(h, allow, i, original) == original

RECURSIVE AllowStep(_, _, _, _)
\* step 1: the first client value of each allowed name, unless empty
AllowStep(h, allow, i, original) ==
    IF i > Len(allow) THEN h
    ELSE AllowStep(IF HGet(original, allow[i]) # "" THEN HSet(h, allow[i], HGet(original, allow[i]))
                   ELSE h,
                   allow, i + 1, original)

\* the value of a set entry: the variable's value for env:VAR, else the text
SetValue(value, en) ==
    IF Len(value) >= 4 /\ SubSeq(value, 1, 4) = "env:"
    THEN Getenv(en, SubSeq(value, 5, Len(value)))
    ELSE value

RECURSIVE SetStep(_, _, _, _, _)
\* step 2: the set entries in the order the map is ranged over; an env:VAR
\* entry whose variable is empty is dropped
SetStep(h, set, order, i, en) ==
    IF i > Len(order) THEN h
    ELSE SetStep(IF SetValue(set[order[i]], en) # "" THEN HSet(h, order[i], SetValue(set[order[i]], en))
                 ELSE h,
                 set, order, i + 1, en)

\* a variant of step 3 that deletes nothing
RemoveNothing(h, remove, i) == h

RECURSIVE RemoveStep(_, _, _)
\* step 3: every name of the remove list deleted
RemoveStep(h, remove, i) ==
    IF i > Len(remove) THEN h ELSE RemoveStep(HDel(h, remove[i]), remove, i + 1)

\* step 4: every value of the auth headers added
AuthStep(h, authHeader) == AddAll(h, authHeader)

\* step 5: the default Content-Type
ContentTypeStep(h) ==
    IF HGet(h, "Content-Type") = "" THEN HSet(h, "Content-Type", "application/json") ELSE h

\* buildUpstreamHeaders, the set map ranged over in the given order
buildUpstreamHeaders(policy, order, original, authHeader, en) ==
    ContentTypeStep(
        AuthStep(
            RemoveStep(
                SetStep(AllowStep(NoHeaders, policy.Allow, 1, original),
                        policy.Set, order, 1, en),
                policy.Remove, 1),
            authHeader))

\* the orders in which a map with the key set S can be ranged over
Orders(S) == {o \in [1..Cardinality(S) -> S] : \A i, j \in 1..Cardinality(S) : o[i] = o[j] => i = j}

AllowLists ==
    {<<>>, <<"authorization">>, <<"Content-Type", "X-Request-Id">>,
     <<"X-Request-Id", "Cookie">>, <<"X-Api-Key">>}

SetMaps ==
    { [n \in {} |-> ""],
      [n \in {"Authorization"} |-> "s-auth"],
      [n \in {"X-Tenant", "x-tenant"} |-> IF n = "X-Tenant" THEN "acme" ELSE "env:TENANT"],
      [n \in {"Content-Type"} |-> "text/plain"],
      [n \in {"X-Api-Key"} |-> "env:UNSET"] }

RemoveLists ==
    {<<>>, <<"Authorization">>, <<"x-request-id", "Cookie">>,
     <<"Content-Type">>, <<"X-Tenant", "X-Api-Key">>}

ClientHeaders ==
    { NoHeaders,
      [n \in {"Authorization", "Cookie", "X-Request-Id", "Content-Type", "X-Api-Key"} |->
          CASE n = "Authorization" -> <<"c-bearer">>
            [] n = "Cookie"        -> <<"c-cookie">>
            [] n = "X-Request-Id"  -> <<"c-r1", "c-r2">>
            [] n = "Content-Type"  -> <<"c-json">>
            [] n = "X-Api-Key"     -> <<"c-key">>],
      [n \in {"X-Request-Id", "Cookie"} |-> IF n = "Cookie" THEN <<"c-cookie">> ELSE <<"">>] }

\* the values a client sent
ClientValues == {"c-bearer", "c-cookie", "c-r1", "c-r2", "c-json", "c-key"}

Upstreams ==
    [BaseURL      : {"http://up", "env:UP_URL"},
     Path         : {"", "/v1/messages"},
     AuthStrategy : {"bearer", "header", "query", ""},
     TokenEnv     : {"UPSTREAM_KEY", "NO_KEY"},
     HeaderName   : {"", "x-api-key"}]

Environ ==
    [n \in {"UPSTREAM_KEY", "TENANT", "UP_URL"} |->
        CASE n = "TENANT" -> "t1"
          [] n = "UP_URL" -> "http://env-up"
          [] OTHER        -> "s=rv"]

HeaderInit ==
    /\ rules = NewScanner
    /\ ctx = NewGatewayContext
    /\ ScanIdle
    /\ SendIdle
    /\ RouteIdle
    /\ GatewayIdle
    /\ PipelineIdle
    /\ headerPolicy \in [Allow : AllowLists, Set : SetMaps, Remove : RemoveLists]
    /\ upstream \in Upstreams
    /\ environ = Environ
    /\ originalHeaders \in ClientHeaders
    /\ upstreamHeaders = NoHeaders
    /\ upstreamURL = [url |-> "", query |-> ""]
    /\ headerPc = "config"

\* the request of sendToUpstream: its URL, then buildAuthHeaders,
\* buildUpstreamHeaders and their copy onto the request, whose header is
\* empty before
HeaderBuild(order) ==
    /\ headerPc = "config"
    /\ upstreamURL' = buildUpstreamURL(upstream, environ)
    /\ upstreamHeaders' =
          AddAll(NoHeaders,
                 buildUpstreamHeaders(headerPolicy, order, originalHeaders,
                                      buildAuthHeaders(upstream, environ), environ))
    /\ headerPc' = "built"
    /\ UNCHANGED <<headerPolicy, upstream, environ, originalHeaders, scanVars, sendVars, routeVars,
                   gatewayVars, pipelineVars>>

HeaderNext == \E order \in Orders(DOMAIN headerPolicy.Set) : HeaderBuild(order)

SpecHeader == HeaderInit /\ [][HeaderNext]_vars

----------------------------------------------------------------------------
(* Scanner rules: any sequence of AddRule and Sanitize calls on one        *)
(* scanner.                                                                *)

MaxRules == 2
MaxRuleFrags == 2

\* Scanner.AddRule: (the rule list after the call, whether it failed)
AddRule(rs, name, pattern, replacement) ==
    IF ~Compiles(pattern) THEN [rules |-> rs, err |-> TRUE]
    ELSE [rules |-> Append(rs, [Name |-> name, Pattern |-> pattern, Replacement |-> replacement]),
          err |-> FALSE]

\* the rules handed to AddRule: the rule of the scanner's test, a rule for
\* the code alone and a pattern that does not compile, each with a plain
\* label and with one that holds a "$"
RuleArgs ==
    [Name : {"SecretCode"}, Pattern : {SecretCodePattern, CodePattern, "("},
     Replacement : {"[SECRET_CODE_REDACTED]", "[$CODE]"}]

\* an OpenAI key whose 20 characters have the shape of an AWS access key
FragAwsShaped  == Chars("sk-AKIA0123456789ABCDEF")
\* an OpenAI key of digits, a phone number's digits among them
FragDigitKey   == Chars("sk-13812345678901234567")
FragSecretCode == Chars("SecretCode: 1234-5678")

RuleFrags == {FragKey, FragAwsShaped, FragDigitKey, FragSecretCode, FragSpacePhone, FragEmail}

RuleFragSeqs(n) == UNION {[1..k -> RuleFrags] : k \in 1..n}

RulesInit == ScanInit

\* scanner.AddRule(a.Name, a.Pattern, a.Replacement) returned r
RuleAddWith(a, r) ==
    /\ Len(ruleCalls) < MaxRules
    /\ rules' = r.rules
    /\ ruleCalls' = Append(ruleCalls, [Name |-> a.Name, Pattern |-> a.Pattern,
                                       Replacement |-> a.Replacement, err |-> r.err])
    /\ lastOp' = "AddRule"
    /\ UNCHANGED <<ctx, input, output, fed, used, sendVars, routeVars, headerVars, gatewayVars, pipelineVars>>

RuleAdd(a) == RuleAddWith(a, AddRule(rules, a.Name, a.Pattern, a.Replacement))

\* scanner.Sanitize(s) on the text s of n fresh fragments
RuleSanitizeWith(s, n) ==
    /\ used + n <= MaxRuleFrags
    /\ input' = s
    /\ output' = Sanitize(rules, s)
    /\ lastOp' = "Sanitize"
    /\ used' = used + n
    /\ UNCHANGED <<rules, ruleCalls, ctx, fed, sendVars, routeVars, headerVars, gatewayVars, pipelineVars>>

RuleSanitize(fs) == RuleSanitizeWith(Concat(fs, 1), Len(fs))

RulesNext ==
    \/ \E a \in RuleArgs : RuleAdd(a)
    \/ \E fs \in RuleFragSeqs(MaxRuleFrags - used) : RuleSanitize(fs)

SpecRules == RulesInit /\ [][RulesNext]_vars

----------------------------------------------------------------------------
(* HTTPServer.handleChatCompletions: the requests the gateway serves, each *)
(* by its own handler; the handlers interleave at their blocking points.   *)

MaxRequests == 2

\* a request no handler has started on
NewRequest ==
    [pc |-> "new", body |-> JNull, headers |-> NoHeaders, ctx |-> NilContext, route |-> 0,
     upBody |-> JNull, wire |-> [url |-> [url |-> "", query |-> ""], headers |-> NoHeaders],
     calls |-> 0, upStatus |-> 0, upResp |-> JNull, final |-> JNull, err |-> NoError,
     status |-> 0, written |-> JNull, trace |-> <<>>]

\* a variant that hands a request the context of a request served before
SharedContext(rs, id) ==
    IF \E o \in DOMAIN rs : ~rs[o].ctx.isNil
    THEN rs[CHOOSE o \in DOMAIN rs : ~rs[o].ctx.isNil].ctx
    ELSE NewGatewayContext

\* the context handleChatCompletions creates for a request
NewRequestContext(rs, id) == NewGatewayContext

\* a variant of the status that answers a body that does not parse as a
\* body without route
RouteStatusLenient(found) == IF found.err \/ found.route = 0 THEN 404 ELSE 0

\* the status the handler answers after FindRoute (0: it goes on)
RouteStatus(found) ==
    IF found.err THEN 400 ELSE IF found.route = 0 THEN 404 ELSE 0

\* the handler up to the route: body read, context created, request logged
\* by the pipeline, route looked up
Received(r, body, hdr, c, found) ==
    [r EXCEPT !.body = body, !.headers = hdr, !.ctx = c, !.route = found.route,
              !.status = RouteStatus(found),
              !.pc = IF RouteStatus(found) = 0 THEN "routed" ELSE "done",
              !.trace = Append(@, "route")]

\* step 1 of Send, t being what the request transforms returned; an error
\* ends the handler with the status of a provider error
Transformed(r, t) ==
    IF t.err # ""
    THEN [r EXCEPT !.ctx = t.ctx, !.err = Error("transform error", 0, Chars(t.err)),
                   !.status = 502, !.pc = "done", !.trace = Append(@, "transform")]
    ELSE [r EXCEPT !.ctx = t.ctx, !.upBody = t.node, !.pc = "sending",
                   !.trace = Append(@, "transform")]

\* sendToUpstream up to client.Do: the request on the wire
Sent(r, route, order, en) ==
    [r EXCEPT !.wire = [url |-> buildUpstreamURL(route.Upstream, en),
                        headers |-> AddAll(NoHeaders,
                            buildUpstreamHeaders(route.HeaderPolicy, order, r.headers,
                                                 buildAuthHeaders(route.Upstream, en), en))],
              !.calls = @ + 1, !.pc = "waiting", !.trace = Append(@, "send")]

\* the reply read in full; any status but 200 ends the handler with the
\* status of a provider error
Replied(r, status, resp) ==
    IF status = 200
    THEN [r EXCEPT !.upStatus = status, !.upResp = resp, !.pc = "read",
                   !.trace = Append(@, "read")]
    ELSE [r EXCEPT !.upStatus = status, !.upResp = resp, !.err = handleHTTPError(status, resp),
                   !.status = 502, !.pc = "done", !.trace = Append(@, "read")]

\* client.Do or io.ReadAll failed
Unreachable(r) ==
    [r EXCEPT !.err = Error("failed to send request", 0, <<>>), !.status = 502, !.pc = "done"]

\* step 3 of Send
Unmasked(r) ==
    [r EXCEPT !.final = applyResponseTransforms(r.ctx, r.upResp), !.pc = "unmasked",
              !.trace = Append(@, "unmask")]

\* a variant of the last step that writes the reply as it was read
WrittenRaw(r) ==
    [r EXCEPT !.status = 200, !.written = r.upResp, !.pc = "done", !.trace = Append(@, "write")]

\* the response logged by the pipeline and written with status 200
Written(r) ==
    [r EXCEPT !.status = 200, !.written = r.final, !.pc = "done", !.trace = Append(@, "write")]

\* request bodies of the gateway
GwBody(model, content) ==
    JObj(<<"model", "messages">>, <<JStr(model), JArr(<<Msg(JStr(content))>>)>>)

GwBodies ==
    {GwBody(ModelGpt, FragEmail), GwBody(ModelGpt, Chars("hi")),
     GwBody(ModelClaude, FragEmail), GwBody(ModelClaude, <<"\"">> \o FragEmail),
     GwBody(Chars("llama"), FragEmail), BodyBad}

\* the configured routes: OpenAI models with a pii step, Claude models with
\* a pii step and a template
GwRoutes ==
    << [ID |-> "openai", Matcher |-> [p \in {"model"} |-> "^gpt-"],
        Upstream |-> [BaseURL |-> "http://up", Path |-> "", AuthStrategy |-> "bearer",
                      TokenEnv |-> "UPSTREAM_KEY", HeaderName |-> ""],
        Transforms |-> <<Plain("pii")>>,
        HeaderPolicy |-> [Allow |-> <<"X-Request-Id">>, Set |-> [n \in {"X-Tenant"} |-> "acme"],
                          Remove |-> <<"Cookie">>]],
       [ID |-> "dify", Matcher |-> [p \in {"model"} |-> "^claude-"],
        Upstream |-> [BaseURL |-> "env:UP_URL", Path |-> "/v1/messages", AuthStrategy |-> "query",
                      TokenEnv |-> "UPSTREAM_KEY", HeaderName |-> ""],
        Transforms |-> <<Plain("pii"), Template(TmplQuery)>>,
        HeaderPolicy |-> [Allow |-> <<>>, Set |-> [n \in {} |-> ""], Remove |-> <<>>]] >>

\* the headers of the clients
GwHeaders ==
    {[n \in {"X-Request-Id", "Cookie"} |-> IF n = "Cookie" THEN <<"c-cookie">> ELSE <<"c-r1">>]}

\* bodies of upstream replies with status 200
GwRespMasked ==
    JObj(<<"choices">>, <<JArr(<<Choice(<<"a">>, JStr(<<"t","o"," ">> \o PEmail))>>)>>)

GwResps == {GwRespMasked, RespBad}

\* statuses and bodies of the other upstream replies
GwErrorStatuses == {401}
GwErrResps == {ErrOpenAI}

GatewayInit ==
    /\ rules = NewScanner
    /\ ctx = NewGatewayContext
    /\ ScanIdle
    /\ SendIdle
    /\ routes = GwRoutes
    /\ matchers = NewEngine(GwRoutes)
    /\ enginePc = "ready"
    /\ findBody = JNull
    /\ findResult = [err |-> FALSE, route |-> 0]
    /\ headerPolicy = [Allow |-> <<>>, Set |-> [n \in {} |-> ""], Remove |-> <<>>]
    /\ upstream = [BaseURL |-> "", Path |-> "", AuthStrategy |-> "", TokenEnv |-> "",
                   HeaderName |-> ""]
    /\ environ = Environ
    /\ originalHeaders = NoHeaders
    /\ upstreamHeaders = NoHeaders
    /\ upstreamURL = [url |-> "", query |-> ""]
    /\ headerPc = "idle"
    /\ reqs = [id \in 1..MaxRequests |-> NewRequest]
    /\ PipelineIdle

\* the handler of request id ran the step that leaves the request as r
GwStep(id, r) ==
    /\ reqs' = [reqs EXCEPT ![id] = r]
    /\ UNCHANGED <<scanVars, sendVars, routeVars, headerVars, pipelineVars>>

GwReceive(id, body, hdr) ==
    /\ reqs[id].pc = "new"
    /\ GwStep(id, Received(reqs[id], body, hdr, NewRequestContext(reqs, id),
                           FindRoute(routes, matchers, body)))

GwTransform(id) ==
    /\ reqs[id].pc = "routed"
    /\ GwStep(id, Transformed(reqs[id],
                    applyRequestTransforms(routes[reqs[id].route].Transforms,
                                           reqs[id].ctx, reqs[id].body)))

GwSend(id, order) ==
    /\ reqs[id].pc = "sending"
    /\ GwStep(id, Sent(reqs[id], routes[reqs[id].route], order, environ))

GwReply(id, status, resp) ==
    /\ reqs[id].pc = "waiting"
    /\ GwStep(id, Replied(reqs[id], status, resp))

GwUnreachable(id) ==
    /\ reqs[id].pc = "waiting"
    /\ GwStep(id, Unreachable(reqs[id]))

GwUnmask(id) ==
    /\ reqs[id].pc = "read"
    /\ GwStep(id, Unmasked(reqs[id]))

GwWrite(id) ==
    /\ reqs[id].pc = "unmasked"
    /\ GwStep(id, Written(reqs[id]))

\* the orders in which the set map of route k can be ranged over
SetOrders(rts, k) == IF k = 0 THEN {} ELSE Orders(DOMAIN rts[k].HeaderPolicy.Set)

GatewayNext ==
    \E id \in 1..MaxRequests :
        \/ \E body \in GwBodies : \E hdr \in GwHeaders : GwReceive(id, body, hdr)
        \/ GwTransform(id)
        \/ \E order \in SetOrders(routes, reqs[id].route) : GwSend(id, order)
        \/ \E resp \in GwResps : GwReply(id, 200, resp)
        \/ \E status \in GwErrorStatuses : \E resp \in GwErrResps : GwReply(id, status, resp)
        \/ GwUnreachable(id)
        \/ GwUnmask(id)
        \/ GwWrite(id)

SpecGateway == GatewayInit /\ [][GatewayNext]_vars

----------------------------------------------------------------------------
(* Properties of the scanner.                                              *)

\* C2: Unmask(vault, Mask(vault, s)) = s for every text s, the rule set
\* unfiltered: unmasking what Mask returned gives back the text masked.
C2_MaskUnmaskLeftInverse ==
    lastOp = "UnmaskMasked" => output = fed[Len(fed)]

\* C5: Mask(v, Mask(v, s)) = Mask(v, s): masking the text that Mask returned
\* changes nothing.
C5_MaskIdempotent ==
    lastOp = "MaskAgain" => output = input

\* C6: after any sequence of Mask calls, every vault entry (p, o) has
\* p = placeholder(o) and no two entries hold the same original; what Mask
\* returns does not depend on the vault; masking the same email twice leaves
\* one entry, and masking an email and a phone number leaves two.
C6_PlaceholderPure ==
    /\ \A p \in DOMAIN ctx.secretVault : p = generatePlaceholder(ctx.secretVault[p])
    /\ \A p, q \in DOMAIN ctx.secretVault :
          ctx.secretVault[p] = ctx.secretVault[q] => p = q
    /\ lastOp = "Mask" => output = Mask(rules, NewGatewayContext, input, <<>>).result
    /\ fed = <<FragEmail, FragEmail>> => Cardinality(DOMAIN ctx.secretVault) = 1
    /\ fed = <<FragEmail \o FragSpacePhone>> => Cardinality(DOMAIN ctx.secretVault) = 2

\* the same email has been masked twice on one vault
C6_SameInputTwice ==
    /\ lastOp = "Mask"
    /\ fed = <<FragEmail, FragEmail>>
    /\ DOMAIN ctx.secretVault = {generatePlaceholder(FragEmail)}

RECURSIVE Expand(_, _, _)
RECURSIVE ExpandAt(_, _, _, _)
\* s from position i on, j being the start of the next placeholder-shaped
\* substring (0: none): kept up to j, then the original of the vault v
\* under that key, or the substring itself when v has no such key
ExpandAt(v, s, i, j) ==
    IF j = 0 THEN SubSeq(s, i, Len(s))
    ELSE SubSeq(s, i, j - 1)
         \o (IF SubSeq(s, j, j + 25) \in DOMAIN v THEN v[SubSeq(s, j, j + 25)]
             ELSE SubSeq(s, j, j + 25))
         \o Expand(v, s, j + 26)

\* s from position i on, each placeholder-shaped substring that is a key of
\* the vault v replaced by the original stored under it
Expand(v, s, i) ==
    ExpandAt(v, s, i, MinOrZero({j \in i..Len(s) : PlaceholderEnd(s, j) > 0}))

\* C7: Unmask replaces a placeholder-shaped substring only by the original
\* the vault holds under that key, leaves every other placeholder and every
\* other character as they are, and returns its input when the context is nil.
C7_UnmaskOnlyVaultKeys ==
    /\ lastOp = "UnmaskNil" => output = input
    /\ lastOp \in {"Unmask", "UnmaskMasked"} => output = Expand(ctx.secretVault, input, 1)

\* Unmask ran on a text holding a placeholder of the vault and an unknown one
C7_KnownAndUnknown ==
    /\ lastOp = "UnmaskMasked"
    /\ input = FragKnown \o FragUnknown
    /\ FragKnown \in DOMAIN ctx.secretVault
    /\ output = FragEmail \o FragUnknown

----------------------------------------------------------------------------
(* Properties of UniversalProvider.Send.                                   *)

RECURSIVE Strings(_)
\* the texts of a body: of its strings and numbers at any depth, or the
\* whole text of a body that does not parse
Strings(n) ==
    IF n.t \in {"str", "num", "bad"} THEN {n.s}
    ELSE UNION {Strings(n.a[i]) : i \in 1..Len(n.a)}

\* C1: on a route with a pii or pii_claude step, no original held in the
\* request's vault occurs anywhere in the body sent to the upstream.
C1_UpstreamSeesNoOriginal ==
    (pc \in {"upstream", "done"} /\ \E i \in 1..Len(transforms) : transforms[i].Type \in {"pii", "pii_claude"})
    => \A p \in DOMAIN ctx.secretVault : \A s \in Strings(upBody) : ~Occurs(ctx.secretVault[p], s)

\* the member key of the object n, where present, replaced by F of it
MapMember(n, key, F(_)) ==
    [n EXCEPT !.a = [i \in 1..Len(n.a) |-> IF n.k[i] = key THEN F(n.a[i]) ELSE n.a[i]]]

\* the elements of an array node replaced by F of them
MapArray(n, F(_)) == IF n.t = "arr" THEN JArr([i \in 1..Len(n.a) |-> F(n.a[i])]) ELSE n

\* a string node with the vault's placeholders expanded
ExpandString(v, n) == IF n.t = "str" THEN JStr(Expand(v, n.s, 1)) ELSE n

\* a choice with its string message.content expanded
ExpandChoice(v, ch) ==
    IF ch.t # "obj" THEN ch
    ELSE MapMember(ch, "message",
            LAMBDA m : IF m.t # "obj" THEN m
                       ELSE MapMember(m, "content", LAMBDA x : ExpandString(v, x)))

\* a block of type "text" with its text expanded
ExpandBlock(v, b) ==
    IF b.t = "obj" /\ (\E i \in 1..Len(b.k) : b.k[i] = "type" /\ b.a[i] = JStr(TypeText))
    THEN MapMember(b, "text", LAMBDA x : ExpandString(v, x))
    ELSE b

\* the reply r with the placeholders of the vault v expanded in every string
\* choices[i].message.content and in the text of every text block content[i]
ExpandReply(v, r) ==
    IF r.t # "obj" THEN r
    ELSE MapMember(MapMember(r, "choices", LAMBDA x : MapArray(x, LAMBDA ch : ExpandChoice(v, ch))),
                   "content", LAMBDA x : MapArray(x, LAMBDA b : ExpandBlock(v, b)))

\* C3: the body Send returns on success is the upstream's 200 body with the
\* vault's placeholders expanded in every string choices[i].message.content
\* and in the text of every text block of a top-level content array, and
\* nothing else changed; a reply of another shape is returned as it is.
C3_UnmaskOnlyContentFields ==
    (pc = "done" /\ result.ok) => result.body = ExpandReply(ctx.secretVault, upResp)

\* a reply held a vault placeholder in message.content and in other fields:
\* the content came back expanded, the id and the role did not
C3_ContentExpandedIdKept ==
    /\ pc = "done" /\ result.ok
    /\ upResp = RespOpenAI
    /\ PEmail \in DOMAIN ctx.secretVault
    /\ Get(result.body, "id") = JStr(PEmail)
    /\ Get(result.body, "choices").a[1] = Choice(PEmail, JStr(<<"t","o"," ">> \o FragEmail \o FragUnknown))

\* the classification of an upstream status
StatusClass(status) ==
    CASE status = 401 -> "unauthorized"
      [] status = 429 -> "rate limit exceeded"
      [] status = 400 -> "bad request"
      [] OTHER        -> "HTTP"

\* C12: Send returns the upstream body only for status 200; for any other
\* status it returns an error whose class follows from the status alone,
\* whether or not a message could be extracted, and which carries the status.
C12_ErrorClassifiedByStatus ==
    (pc = "done" /\ upStatus # 0) =>
        /\ result.ok <=> upStatus = 200
        /\ upStatus # 200 =>
              /\ result.err.kind = StatusClass(upStatus)
              /\ result.err.status = upStatus

\* the error a step returns on a body: only field_map and template steps
\* return one
StepError(step, body) ==
    CASE step.Type = "pii"       -> applyPIITransform(NilContext, body).err
      [] step.Type = "pii_claude" -> applyClaudePIITransform(NilContext, body).err
      [] step.Type = "field_map" -> applyFieldMapTransform(body, step.Config, step.Order).err
      [] step.Type = "template"  -> applyTemplateTransform(body, step.Config).err
      [] OTHER                   -> ""

\* the body and the context a step that returns no error leaves
StepOutput(step, c, body) ==
    CASE step.Type = "pii"        -> applyPIITransform(c, body)
      [] step.Type = "pii_claude" -> applyClaudePIITransform(c, body)
      [] step.Type = "field_map"  ->
            Untouched(c, applyFieldMapTransform(body, step.Config, step.Order).node)
      [] step.Type = "template"   -> Untouched(c, applyTemplateTransform(body, step.Config).node)
      [] OTHER                    -> Untouched(c, body)

RECURSIVE FirstFailure(_, _, _)
\* the first step from the i-th on that returns an error when each step is
\* handed the output of the one before (0: none), and the context it and
\* the steps before it left
FirstFailure(steps, i, r) ==
    IF i > Len(steps) THEN [step |-> 0, ctx |-> r.ctx]
    ELSE IF StepError(steps[i], r.node) # ""
    THEN [step |-> i, ctx |-> StepOutput(steps[i], r.ctx, r.node).ctx]
    ELSE The({FirstFailure(steps, i + 1, t) : t \in {StepOutput(steps[i], r.ctx, r.node)}})

\* Send returned a transform error, sent nothing, and its context is c
AbortedWith(c) ==
    /\ pc = "done"
    /\ ~result.ok
    /\ result.err.kind = "transform error"
    /\ upCalls = 0
    /\ upStatus = 0
    /\ ctx = c

\* with a first failure f, Send aborted with the context of f
AbortsOn(f) == f.step # 0 => AbortedWith(f.ctx)

\* C15: when a step of the transform list returns an error, Send returns an
\* error, no later step runs and no request goes to the upstream.
C15_TransformFailureAborts ==
    pc # "ready" => AbortsOn(FirstFailure(transforms, 1, Untouched(NewGatewayContext, reqBody)))

\* a template that does not compile, in front of a pii step, on a body with
\* an email: Send failed and the vault is empty
C15_FailedBeforeMask ==
    /\ transforms = <<Template(TmplOpen), Plain("pii")>>
    /\ reqBody = BodyOpenAI
    /\ pc = "done"
    /\ result.err.kind = "transform error"
    /\ ctx.secretVault = EmptyVault

----------------------------------------------------------------------------
(* Properties of the engine.                                               *)

\* C4: FindRoute returns the first route in declared order whose own matcher
\* has every entry match the value at its path in the body (an absent path
\* fails the route, an empty matcher matches every well-formed body), and
\* nil when there is none.
C4_FirstMatchingRoute ==
    (enginePc = "found" /\ ~findResult.err)
    => findResult.route = MinOrZero({i \in 1..Len(routes) : AllMatch(routes[i].Matcher, findBody)})

----------------------------------------------------------------------------
(* Properties of the upstream headers.                                     *)

\* the canonical names of a list of header names
CanonNames(names) == {Canon(names[i]) : i \in 1..Len(names)}

\* the name and the value of the auth header
AuthName  == Canon(IF upstream.AuthStrategy = "header" /\ upstream.HeaderName # ""
                   THEN upstream.HeaderName ELSE "Authorization")
AuthToken == Getenv(environ, upstream.TokenEnv)
AuthValue == IF upstream.AuthStrategy = "header" THEN AuthToken ELSE "Bearer " \o AuthToken

\* the header n is not sent, or sent only as the auth step or the default
\* Content-Type made it
OnlyFromLaterSteps(n) ==
    \/ n \notin DOMAIN upstreamHeaders
    \/ AuthToken # "" /\ n = AuthName /\ upstreamHeaders[n] = <<AuthValue>>
    \/ n = "Content-Type" /\ upstreamHeaders[n] = <<"application/json">>

\* C8: with a token and the bearer or header strategy, the upstream request
\* carries the auth header with exactly one value, the server-side one,
\* under every header policy.
C8_AuthHeaderSingleValue ==
    (headerPc = "built" /\ AuthToken # "" /\ upstream.AuthStrategy \in {"bearer", "header"})
    => (AuthName \in DOMAIN upstreamHeaders /\ upstreamHeaders[AuthName] = <<AuthValue>>)

\* a value the client sent is forwarded only under a name that allow lists
\* and remove does not, and is the first value the client sent under it
ClientValuesOnlyAllowed ==
    \A n \in DOMAIN upstreamHeaders : \A i \in 1..Len(upstreamHeaders[n]) :
        upstreamHeaders[n][i] \in ClientValues
        => /\ n \in CanonNames(headerPolicy.Allow) \ CanonNames(headerPolicy.Remove)
           /\ upstreamHeaders[n][i] = HGet(originalHeaders, n)

\* C9 (as the code has it): a client value reaches the upstream only under
\* a name listed in allow and not in remove; a header listed in both is not
\* sent, unless it is the auth header or Content-Type, which the later steps
\* set to the server's token or to application/json.
C9_ClientHeadersOnlyIfAllowed ==
    headerPc = "built"
    => /\ ClientValuesOnlyAllowed
       /\ \A n \in CanonNames(headerPolicy.Allow) \cap CanonNames(headerPolicy.Remove) :
             OnlyFromLaterSteps(n)

\* C9 (as the spec has it): a client value reaches the upstream only under
\* a name listed in allow and not in remove, and a header listed in both is
\* absent from the upstream request.
C9_AllowedAndRemovedAbsent ==
    headerPc = "built"
    => /\ ClientValuesOnlyAllowed
       /\ \A n \in CanonNames(headerPolicy.Allow) \cap CanonNames(headerPolicy.Remove) :
             n \notin DOMAIN upstreamHeaders

\* the client sent X-Request-Id and Cookie; the first is allowed and
\* removed, the second neither: none is sent, while an allowed Content-Type
\* is forwarded
C9_RemovedNotForwarded ==
    /\ headerPc = "built"
    /\ headerPolicy.Allow = <<"Content-Type", "X-Request-Id">>
    /\ headerPolicy.Remove = <<"x-request-id", "Cookie">>
    /\ HGet(originalHeaders, "X-Request-Id") = "c-r1"
    /\ DOMAIN upstreamHeaders \cap {"X-Request-Id", "Cookie"} = {}
    /\ upstreamHeaders["Content-Type"] = <<"c-json">>

\* the canonical names of the set entries
SetNames == {Canon(n) : n \in DOMAIN headerPolicy.Set}

\* C10 (as the code has it): a header named in both set and remove does not
\* reach the upstream with the set value: it is not sent, unless it is the
\* auth header or Content-Type, which the later steps set.
C10_SetAndRemovedNotSent ==
    headerPc = "built"
    => \A n \in SetNames \cap CanonNames(headerPolicy.Remove) : OnlyFromLaterSteps(n)

\* C10 (as the spec has it): a header named in both set and remove is sent
\* with the set value.
C10_SetAndRemovedKeepsSetValue ==
    headerPc = "built"
    => \A k \in DOMAIN headerPolicy.Set :
          (Canon(k) \in CanonNames(headerPolicy.Remove) /\ SetValue(headerPolicy.Set[k], environ) # "")
          => /\ Canon(k) \in DOMAIN upstreamHeaders
             /\ \E j \in DOMAIN headerPolicy.Set :
                   Canon(j) = Canon(k)
                   /\ upstreamHeaders[Canon(k)] = <<SetValue(headerPolicy.Set[j], environ)>>

\* X-Tenant is set and removed, and the upstream request has no X-Tenant
C10_TenantSetAndRemoved ==
    /\ headerPc = "built"
    /\ "X-Tenant" \in DOMAIN headerPolicy.Set
    /\ headerPolicy.Remove = <<"X-Tenant", "X-Api-Key">>
    /\ "X-Tenant" \notin DOMAIN upstreamHeaders


\* the values under any name of the header h
HeaderValues(h) == UNION {{h[n][i] : i \in 1..Len(h[n])} : n \in DOMAIN h}

\* C11: with the auth strategy query and a non-empty token, the token goes
\* to the upstream as the api_key query parameter of the URL and in no
\* header of the request.
C11_QueryTokenOnlyInURL ==
    (headerPc = "built" /\ upstream.AuthStrategy = "query" /\ AuthToken # "") =>
        /\ upstreamURL.query = "api_key=" \o QueryEscape(AuthToken, 1)
        /\ HeaderValues(upstreamHeaders) \cap {AuthToken, "Bearer " \o AuthToken} = {}


----------------------------------------------------------------------------
(* Properties of the gateway.                                              *)

\* the request failed in its transform steps
TransformFailed(r) == r.pc = "done" /\ r.err.kind = "transform error"

\* the request failed at the upstream: a reply with another status than
\* 200, or no reply
UpstreamFailed(r) == r.pc = "done" /\ r.err.kind \notin {"", "transform error"}

\* C13: a request whose transform step returned an error is answered with
\* status 500, a request that failed at the upstream with status 502.
C13_StatusByFailureKind ==
    \A id \in DOMAIN reqs :
        /\ TransformFailed(reqs[id]) => reqs[id].status = 500
        /\ UpstreamFailed(reqs[id]) => reqs[id].status = 502

\* no configured route's own matcher matches the body
NoRouteMatches(body) == \A i \in 1..Len(routes) : ~AllMatch(routes[i].Matcher, body)

\* the request was answered with the status, nothing was sent upstream and
\* its vault is empty
RefusedWith(r, status) ==
    /\ r.pc = "done"
    /\ r.status = status
    /\ r.calls = 0
    /\ r.ctx.secretVault = EmptyVault

\* C14: a body that does not parse is answered with 400, a body that
\* matches no route with 404, in both cases without a vault entry and
\* without an upstream call; an upstream call is made only for a request
\* with a route.
C14_NoUpstreamWithoutRoute ==
    \A id \in DOMAIN reqs :
        /\ (reqs[id].pc # "new" /\ reqs[id].body.t = "bad") => RefusedWith(reqs[id], 400)
        /\ (reqs[id].pc # "new" /\ reqs[id].body.t # "bad" /\ NoRouteMatches(reqs[id].body))
              => RefusedWith(reqs[id], 404)
        /\ reqs[id].calls > 0 => reqs[id].route \in 1..Len(routes)

\* one request was refused with 400 and another with 404
C14_BothRefused ==
    \E a, b \in DOMAIN reqs :
        /\ reqs[a].body = BodyBad /\ reqs[a].status = 400
        /\ reqs[b].body = GwBody(Chars("llama"), FragEmail) /\ reqs[b].status = 404

\* the position of the event in the trace (0: it did not happen)
Pos(trace, e) == MinOrZero({i \in 1..Len(trace) : trace[i] = e})

\* the event happened at most once, and only after the event before
After(trace, before, e) ==
    /\ Cardinality({i \in 1..Len(trace) : trace[i] = e}) <= 1
    /\ Pos(trace, e) > 0 => (Pos(trace, before) > 0 /\ Pos(trace, before) < Pos(trace, e))

\* the body and the context the whole transform list of the request's
\* route leaves on a fresh context
OwnTransforms(r) ==
    applyRequestTransforms(routes[r.route].Transforms, NewGatewayContext, r.body)

\* C16: within a request the transforms complete before the upstream call,
\* the reply is read before the unmask pass, and the unmask pass completes
\* before the response is written: what goes upstream is the output of the
\* whole transform list, and what is written is the unmasked reply.
C16_PhasesOrdered ==
    \A id \in DOMAIN reqs :
        /\ After(reqs[id].trace, "route", "transform")
        /\ After(reqs[id].trace, "transform", "send")
        /\ After(reqs[id].trace, "send", "read")
        /\ After(reqs[id].trace, "read", "unmask")
        /\ After(reqs[id].trace, "unmask", "write")
        /\ reqs[id].calls > 0 => reqs[id].upBody = OwnTransforms(reqs[id]).node
        /\ reqs[id].status = 200 =>
              /\ Pos(reqs[id].trace, "write") > 0
              /\ reqs[id].written = applyResponseTransforms(reqs[id].ctx, reqs[id].upResp)

\* a request went through all phases and its reply was changed by the
\* unmask pass
C16_AllPhasesDone ==
    \E id \in DOMAIN reqs :
        /\ reqs[id].trace = <<"route", "transform", "send", "read", "unmask", "write">>
        /\ reqs[id].status = 200
        /\ reqs[id].written # reqs[id].upResp

\* C17: every request starts on a fresh empty vault, its vault holds only
\* what its own request-side pass masked, and its reply is expanded from
\* that vault alone, whatever other requests are served before or meanwhile.
C17_VaultsIsolated ==
    \A id \in DOMAIN reqs :
        /\ reqs[id].pc = "routed" => reqs[id].ctx.secretVault = EmptyVault
        /\ reqs[id].pc \in {"sending", "waiting", "read", "unmasked"}
              => reqs[id].ctx = OwnTransforms(reqs[id]).ctx
        /\ reqs[id].status = 200 =>
              reqs[id].written =
                  ExpandReply(OwnTransforms(reqs[id]).ctx.secretVault, reqs[id].upResp)

\* while a request that masked an email waits for its reply, another
\* request without that email got a reply holding the email's placeholder
\* and was answered with the placeholder in place
C17_PlaceholderOfOtherKept ==
    \E a, b \in DOMAIN reqs :
        /\ reqs[a].pc = "waiting"
        /\ PEmail \in DOMAIN reqs[a].ctx.secretVault
        /\ reqs[b].body = GwBody(ModelGpt, Chars("hi"))
        /\ reqs[b].upResp = GwRespMasked
        /\ reqs[b].status = 200
        /\ reqs[b].written = GwRespMasked

----------------------------------------------------------------------------
(* Properties of the scanner's rules.                                      *)

\* the text s holds a valid OpenAI-style key
HasOpenAIKey(s) == \E i \in 1..Len(s) : OpenAIKeyEnd(s, i) > 0

\* C18: whenever Sanitize ran on an input that holds a valid OpenAI-style
\* key (sk-, optional proj-, at least 20 alphanumerics, word-bounded), its
\* output contains [OPENAI_KEY_REDACTED] and does not contain
\* [PHONE_REDACTED].
C18_KeyNeverPhone ==
    (lastOp = "Sanitize" /\ HasOpenAIKey(input))
        => /\ Occurs(Chars("[OPENAI_KEY_REDACTED]"), output)
           /\ ~Occurs(Chars("[PHONE_REDACTED]"), output)

\* C19: in every state of the scanner, after construction and after any
\* sequence of AddRule calls, the Mobile Phone rule is the last of the rule
\* list, so that Sanitize and Mask evaluate no rule after it.
C19_PhoneLast == rules[Len(rules)].Name = "Mobile Phone"

\* the patterns of RuleArgs that are no valid regular expression
InvalidPatterns == {"("}

RECURSIVE Accepted(_, _)
\* the rules of the k-th and later calls of cs that reported no failure
Accepted(cs, k) ==
    IF k > Len(cs) THEN <<>>
    ELSE (IF cs[k].err THEN <<>>
          ELSE <<[Name |-> cs[k].Name, Pattern |-> cs[k].Pattern,
                  Replacement |-> cs[k].Replacement]>>)
         \o Accepted(cs, k + 1)

\* the text Sanitize hands to the j-th rule
Before(j) == SanitizeFrom(SubSeq(rules, 1, j - 1), 1, input)

\* C20: an AddRule call fails exactly when its pattern is no valid regular
\* expression; the rule list is the built-in rules followed by the rules of
\* the calls that did not fail, one per call, in call order; and whenever
\* Sanitize ran, the label of every added rule whose pattern matched the
\* text the rule was handed stands in the output.
C20_AddRule ==
    /\ \A k \in 1..Len(ruleCalls) : ruleCalls[k].err = (ruleCalls[k].Pattern \in InvalidPatterns)
    /\ rules = NewScanner \o Accepted(ruleCalls, 1)
    /\ lastOp = "Sanitize" =>
          \A j \in (Len(NewScanner) + 1)..Len(rules) :
              NextMatch(rules[j].Pattern, Before(j), 1) > 0
                  => Occurs(Chars(rules[j].Replacement), output)

\* C20 for the added rules whose label holds no "$"
C20_PlainLabels ==
    /\ \A k \in 1..Len(ruleCalls) : ruleCalls[k].err = (ruleCalls[k].Pattern \in InvalidPatterns)
    /\ rules = NewScanner \o Accepted(ruleCalls, 1)
    /\ lastOp = "Sanitize" =>
          \A j \in (Len(NewScanner) + 1)..Len(rules) :
              (NextMatch(rules[j].Pattern, Before(j), 1) > 0 /\ NextDollar(Chars(rules[j].Replacement), 1) = 0)
                  => Occurs(Chars(rules[j].Replacement), output)

----------------------------------------------------------------------------
(* Properties of the transform steps.                                      *)

\* the text Mask returns for s: the placeholders are a function of the text
\* alone, whatever the vault holds
MaskedText(s) == Mask(NewScanner, NilContext, s, <<>>).result

\* the member key of n with the text new in the place of the text old
Redacted(n, key, old, new) == IF new = old THEN n ELSE Set(n, key, JStr(new))

\* the member key of n masked
RedactedMember(n, key) ==
    Redacted(n, key, StringOf(Get(n, key)), MaskedText(StringOf(Get(n, key))))

\* a content block whose type is "text" and that has a text
IsText(b) ==
    /\ HasString(b, "type") /\ Get(b, "type").s = TypeText
    /\ Has(b, "text") /\ Get(b, "text").t \notin {"arr", "obj"}

\* what a block is to become: the text of a text block masked
ExpectedBlock(b) == IF IsText(b) THEN RedactedMember(b, "text") ELSE b

\* what a Claude message is to become
ExpectedClaudeMessage(m) ==
    IF HasString(m, "content") THEN RedactedMember(m, "content")
    ELSE IF HasArray(m, "content")
    THEN Set(m, "content", JArr([i \in 1..Len(Get(m, "content").a) |->
                                    ExpectedBlock(Get(m, "content").a[i])]))
    ELSE m

\* what the messages of a Claude body are to become
ExpectedClaudeMessages(body) ==
    IF HasArray(body, "messages")
    THEN Set(body, "messages", JArr([i \in 1..Len(Get(body, "messages").a) |->
                                        ExpectedClaudeMessage(Get(body, "messages").a[i])]))
    ELSE body

\* what a Claude body is to become
ExpectedClaude(body) ==
    ExpectedClaudeMessages(IF HasString(body, "system") THEN RedactedMember(body, "system")
                           ELSE body)

\* the route has the one step of the type, and Send has run it on a body
\* that parses
RanAlone(type) ==
    /\ pc # "ready"
    /\ Len(transforms) = 1
    /\ transforms[1].Type = type
    /\ WellFormed(reqBody)

\* C21: the body a pii_claude step returns is its input with a string system,
\* every string messages[i].content and the text of every text block masked;
\* every block of another type and every other field are as in the input.
C21_ClaudeMasksExactly == RanAlone("pii_claude") => upBody = ExpectedClaude(reqBody)

\* a pii_claude step ran on the body with a text block to mask beside blocks
\* of other types that hold texts a rule matches
C21_BlocksKept ==
    /\ RanAlone("pii_claude")
    /\ reqBody = BodyBlocks
    /\ upBody # reqBody

----------------------------------------------------------------------------
(* applyFieldMapTransform as a function of the body, the mapping and the    *)
(* order in which the range over the mapping yields its entries.            *)

\* the largest number of entries of a mapping
MaxEntries == 2

\* the target paths and the source paths of the mappings
FmTargets == {"a", "b", "a.b", "c.0"}
FmSources == {"a", "b", "id", "a.b", "x"}

\* the mappings: target path -> source path
FmConfigs ==
    UNION {[S -> FmSources] : S \in {T \in SUBSET FmTargets : Cardinality(T) <= MaxEntries}}

\* bodies: strings, numbers, an integer above 2^53, null, an object and an
\* array under the paths of the mappings
FmFlat   == JObj(<<"a", "b", "id">>, <<JStr(<<"x">>), JNum(<<"2">>), JNum(BigNumeral)>>)
FmNested == JObj(<<"a", "b", "id">>,
                 <<JObj(<<"b">>, <<JStr(<<"y">>)>>), JNum(<<"1", ".", "0">>), JStr(<<"s">>)>>)
FmArray  == JObj(<<"a", "b", "c">>, <<JArr(<<JStr(<<"p">>)>>), JNull, JArr(<<JNum(<<"7">>)>>)>>)

FmBodies == {FmFlat, FmNested, FmArray}

\* a provider whose route has one field_map step, not yet run
FieldMapInit ==
    /\ rules = NewScanner
    /\ ctx = NewGatewayContext
    /\ ScanIdle
    /\ transforms \in {<<Step("field_map", config, <<>>)>> : config \in FmConfigs}
    /\ pc = "ready"
    /\ reqBody = JNull
    /\ upBody = JNull
    /\ upResp = JNull
    /\ result = [ok |-> FALSE, body |-> JNull, err |-> NoError]
    /\ upStatus = 0
    /\ upCalls = 0
    /\ RouteIdle
    /\ HeaderIdle
    /\ GatewayIdle
    /\ PipelineIdle

\* what applyFieldMapTransform returns, r being the buffer and the error of
\* its loop: (result, nil) or (nil, "failed to set field ...")
FieldMapReturn(r) ==
    IF r.err = "" THEN [ok |-> TRUE, body |-> r.node, err |-> NoError]
    ELSE [ok |-> FALSE, body |-> JNull, err |-> Error("failed to set field", 0, Chars(r.err))]

\* applyFieldMapTransform on the body, the range over the mapping yielding
\* the targets in the given order
FieldMapApply(body, order) ==
    /\ pc = "ready"
    /\ reqBody' = body
    /\ transforms' = <<Step("field_map", transforms[1].Config, order)>>
    /\ result' = FieldMapReturn(applyFieldMapTransform(body, transforms[1].Config, order))
    /\ upBody' = result'.body
    /\ pc' = "mapped"
    /\ UNCHANGED <<scanVars, upResp, upStatus, upCalls, routeVars, headerVars, gatewayVars, pipelineVars>>

FieldMapNext ==
    \E body \in FmBodies : \E order \in Orders(DOMAIN transforms[1].Config) :
        FieldMapApply(body, order)

SpecFieldMap == FieldMapInit /\ [][FieldMapNext]_vars

\* the number a numeral of the model denotes, as a numeral without trailing
\* zeros
Decimal(raw) ==
    CASE raw = <<"1", ".", "0">> -> <<"1">>
      [] raw = <<"5", ".", "5", "0">> -> <<"5", ".", "5">>
      [] OTHER -> raw

RECURSIVE SameJSON(_, _)
\* x and y are the same JSON value: the same members whatever their order,
\* the same elements in order, the same number, string or literal
SameJSON(x, y) ==
    /\ x.t = y.t
    /\ CASE x.t = "obj" ->
              /\ {x.k[i] : i \in 1..Len(x.k)} = {y.k[i] : i \in 1..Len(y.k)}
              /\ \A i \in 1..Len(x.k) : SameJSON(Get(x, x.k[i]), Get(y, x.k[i]))
         [] x.t = "arr" ->
              /\ Len(x.a) = Len(y.a)
              /\ \A i \in 1..Len(x.a) : SameJSON(x.a[i], y.a[i])
         [] x.t = "num" -> Decimal(x.s) = Decimal(y.s)
         [] OTHER -> x.s = y.s

\* one of the key lists is the beginning of the other
PrefixKeys(ks, ls) ==
    \/ Len(ks) <= Len(ls) /\ SubSeq(ls, 1, Len(ks)) = ks
    \/ Len(ls) <= Len(ks) /\ SubSeq(ks, 1, Len(ls)) = ls

\* two paths one of which lies at or under the other
Overlap(t, u) == PrefixKeys(PathKeys(t), PathKeys(u))

\* the step that ran, and whether its source for the target t exists in the
\* input
RanFieldMap == pc = "mapped"
Mapping == transforms[1].Config
Sourced(t) == PathGet(reqBody, Mapping[t]).exists

\* no entry written after the i-th of the order writes at, above or under
\* its target
Settled(order, i) ==
    \A j \in (i + 1)..Len(order) : Sourced(order[j]) => ~Overlap(order[i], order[j])

\* no entry that writes lies at, above or under the target t
Apart(t) == \A u \in DOMAIN Mapping : Sourced(u) => ~Overlap(t, u)

\* the target t holds in the output the value v
Holds(t, v) == PathGet(upBody, t).exists /\ SameJSON(PathGet(upBody, t).node, v)

\* C22: after a field_map step that returned no error, every target whose
\* source exists in the step's input, and that no later entry wrote over,
\* holds the value the input had at the source; a target whose source is
\* missing, and that no entry wrote over, is as in the input; and a mapping
\* all of whose sources are missing returns the input and no error.
C22_SourceFromInput ==
    RanFieldMap =>
        /\ result.ok =>
              \A i \in 1..Len(transforms[1].Order) :
                  IF Sourced(transforms[1].Order[i])
                  THEN Settled(transforms[1].Order, i) =>
                          Holds(transforms[1].Order[i],
                                PathGet(reqBody, Mapping[transforms[1].Order[i]]).node)
                  ELSE Apart(transforms[1].Order[i]) =>
                          PathGet(upBody, transforms[1].Order[i])
                              = PathGet(reqBody, transforms[1].Order[i])
        /\ (\A t \in DOMAIN Mapping : ~Sourced(t)) => result.ok /\ upBody = reqBody

\* the source of the target t is the integer above 2^53
BigSourced(t) == Sourced(t) /\ PathGet(reqBody, Mapping[t]).node = JNum(BigNumeral)

\* C22 for the mappings none of whose sources holds an integer that is no
\* float64
C22_ExactSources ==
    (\A t \in DOMAIN Mapping : ~BigSourced(t)) => C22_SourceFromInput

\* the mapping {a: b, b: a} ran on a body that has both
C22_Swapped ==
    /\ RanFieldMap
    /\ DOMAIN Mapping = {"a", "b"} /\ Mapping["a"] = "b" /\ Mapping["b"] = "a"
    /\ reqBody = FmNested
    /\ result.ok

\* what the caller of applyFieldMapTransform (body, config, order) sees
FieldMapOutcome(body, config, order) ==
    FieldMapReturn(applyFieldMapTransform(body, config, order))

\* C30: whatever order the range over the mapping takes, the step returns
\* an error or none alike, and without error the same JSON value.
C30_OrderIndependent ==
    RanFieldMap =>
        \A order \in Orders(DOMAIN Mapping) :
            /\ FieldMapOutcome(reqBody, Mapping, order).ok = result.ok
            /\ result.ok => SameJSON(FieldMapOutcome(reqBody, Mapping, order).body, upBody)

\* C30 for the mappings no two targets of which overlap
C30_DisjointTargets ==
    (\A t, u \in DOMAIN Mapping : t # u => ~Overlap(t, u)) => C30_OrderIndependent

\* a mapping of two targets that do not overlap ran in one of its orders
C30_TwoTargets ==
    /\ RanFieldMap
    /\ DOMAIN Mapping = {"b", "c.0"}
    /\ \A t \in DOMAIN Mapping : Sourced(t)
    /\ result.ok

----------------------------------------------------------------------------
(* Properties of the step list.                                            *)

RECURSIVE InputOf(_, _, _)
\* what the steps before the i-th make of r, each handed the output of the
\* one before: the input of step i, and for i = Len(steps) + 1 the output of
\* the list
InputOf(steps, i, r) ==
    IF i = 1 THEN r
    ELSE The({StepOutput(steps[i - 1], t.ctx, t.node) : t \in {InputOf(steps, i - 1, r)}})

\* the client body and the context Send was called with
ClientInput == Untouched(NewGatewayContext, reqBody)

\* the first step of the route that fails on the client body, 0 for none
Failing == FirstFailure(transforms, 1, ClientInput).step

\* Send reached step i: no step before it failed
Reached(i) == Failing = 0 \/ Failing >= i

\* Send returned a transform error and sent nothing
Aborted ==
    /\ pc = "done"
    /\ ~result.ok
    /\ result.err.kind = "transform error"
    /\ upCalls = 0

\* one of the four failures of a template step on the body: the body is no
\* map, the template does not compile, its execution fails, its output is
\* no JSON
TemplateMustFail(tmpl, body) ==
    \/ body.t \notin {"obj", "null"}
    \/ ~TemplateParses(tmpl)
    \/ ~TemplateExecutes(tmpl, body)
    \/ ~TemplateOutputValid(tmpl, TemplateValue(tmpl, body))

\* the template step i, reached on the input body, either fails Send or
\* returns a body that parses
TemplateValidOrFails(i, body) ==
    IF TemplateMustFail(transforms[i].Config.template, body)
    THEN Aborted /\ Failing = i
    ELSE /\ applyTemplateTransform(body, transforms[i].Config).err = ""
         /\ WellFormed(applyTemplateTransform(body, transforms[i].Config).node)
         /\ Failing = 0 => WellFormed(upBody)

\* C23: every template step that Send reaches either fails Send, when its
\* input is no map, its template does not compile or execute or its output
\* is no JSON, or returns a body that parses as JSON.
C23_TemplateValidOrFails ==
    pc # "ready" =>
        \A i \in 1..Len(transforms) :
            transforms[i].Type = "template" /\ Reached(i)
                => TemplateValidOrFails(i, InputOf(transforms, i, ClientInput).node)

\* C23 for the steps whose config holds a template
C23_WithTemplate ==
    (\A i \in 1..Len(transforms) :
        transforms[i].Type = "template" => transforms[i].Config.template # "")
        => C23_TemplateValidOrFails

\* a template step after a pii step printed a placeholder into a body that
\* parses, and the body went upstream
C23_TemplateSent ==
    /\ transforms = <<Plain("pii"), Template(TmplQuery)>>
    /\ reqBody = BodyOpenAI
    /\ pc = "upstream"
    /\ upBody = TemplateOutput(TmplQuery, PEmail)

\* the upstream answered 200 and Send returned
Answered == pc = "done" /\ upStatus = 200

\* C24: once the upstream has answered 200, Send returns a body and no
\* error, whatever the body of the answer.
C24_UnmaskNeverFatal == Answered => result.ok /\ result.err = NoError

\* C24 for the answers that are JSON or that sonic.Get rejects: Send returns
\* a body, which is the answer itself when it did not parse
C24_ParsedOrRejected ==
    Answered /\ ~MarshalFails(upResp) =>
        /\ result.ok /\ result.err = NoError
        /\ upResp.t = "bad" => result.body = upResp

\* an answer of an unknown shape that holds a placeholder came back as it is
C24_UnknownShape ==
    /\ Answered
    /\ upResp = RespOther
    /\ result.ok
    /\ result.body = RespOther

\* C25: when no step fails, the body on the wire is what the steps make of
\* the client body when they run in their configured order, the first on
\* the client body and each other one on the output of the step before it.
C25_StepsInOrder ==
    pc # "ready" /\ Failing = 0 =>
        /\ pc # "done" \/ upCalls = 1
        /\ upBody = InputOf(transforms, Len(transforms) + 1, ClientInput).node

\* a field_map step after a pii step copied the placeholder of the email,
\* not the email
C25_PlaceholderMapped ==
    /\ transforms = <<Plain("pii"), FieldMap("query", "messages.0.content")>>
    /\ reqBody = BodyOpenAI
    /\ pc = "upstream"
    /\ PathGet(upBody, "query").node = JStr(PEmail)

\* every entry of the vault v is an entry of the vault w
Extends(w, v) == \A p \in DOMAIN v : p \in DOMAIN w /\ w[p] = v[p]

\* the vault the steps before the i-th left
VaultBefore(i) == InputOf(transforms, i, ClientInput).ctx.secretVault

\* the steps Send ran: all of them, or those up to the first that failed
StepsRun == IF Failing = 0 THEN Len(transforms) ELSE Failing

\* every step Send ran kept the entries it found, and the vault of the
\* request is the one the last of them left
RequestOnlyAdds ==
    pc # "ready" =>
        /\ \A i \in 1..StepsRun : Extends(VaultBefore(i + 1), VaultBefore(i))
        /\ ctx.secretVault = VaultBefore(StepsRun + 1)

\* a step of Send after the request phase leaves the vault as it is
ResponseOnlyReads == pc # "ready" => ctx' = ctx

\* C26: the steps of the request phase only add entries to the vault, and
\* from the upstream call on the vault does not change: the response phase
\* only reads it.
C26_VaultPhases == [](RequestOnlyAdds) /\ [][ResponseOnlyReads /\ Extends(ctx'.secretVault, ctx.secretVault)]_vars

\* two steps wrote the vault one after the other, and the response phase
\* read an entry: the placeholders of the answer came back as originals
C26_WrittenThenRead ==
    /\ transforms = <<Plain("pii"), Plain("pii_claude")>>
    /\ reqBody = BodyClaude
    /\ VaultBefore(2) # VaultBefore(3)
    /\ Answered
    /\ result.ok
    /\ result.body # upResp

\* what a message is to become under a pii step
ExpectedPIIMessage(m) == IF HasString(m, "content") THEN RedactedMember(m, "content") ELSE m

\* what a body is to become under a pii step
ExpectedPII(body) ==
    IF HasArray(body, "messages")
    THEN Set(body, "messages", JArr([i \in 1..Len(Get(body, "messages").a) |->
                                        ExpectedPIIMessage(Get(body, "messages").a[i])]))
    ELSE body

\* the route has the one step of the type, and Send has run it
Ran(type) ==
    /\ pc # "ready"
    /\ Len(transforms) = 1
    /\ transforms[1].Type = type

\* C27: a pii step returns no error; the body it returns is its input with
\* every string messages[i].content masked and nothing else changed; and a
\* body that is no JSON, or whose messages is missing or no array, is
\* returned as it is, with nothing written to the vault.
C27_PIIMasksExactly ==
    Ran("pii") =>
        /\ ~Aborted
        /\ upBody = ExpectedPII(reqBody)
        /\ ~WellFormed(reqBody) \/ ~HasArray(reqBody, "messages")
              => upBody = reqBody /\ ctx.secretVault = EmptyVault

\* C27 for the bodies that are JSON and the texts sonic.Get rejects
C27_ParsedOrRejected == ~MarshalFails(reqBody) => C27_PIIMasksExactly

\* a pii step masked the one string content of a messages array that also
\* holds a string, an object without content and a content that is a number
C27_MixedMessages ==
    /\ Ran("pii")
    /\ reqBody = BodyMixed
    /\ upBody # reqBody
    /\ Cardinality(DOMAIN ctx.secretVault) = 1

----------------------------------------------------------------------------
(* Pipeline: processors registered in any order, executed by priority.     *)

\* the largest number of registered processors
MaxProcessors == 3

\* a processor: its name, its priority, and whether its OnRequest and its
\* OnResponse return an error
Proc(name, priority, failsRequest, failsResponse) ==
    [Name |-> name, Priority |-> priority, FailsRequest |-> failsRequest,
     FailsResponse |-> failsResponse]

\* processors: two of one priority, one of which fails a request, one that
\* runs before them and one that runs after them and fails a response
Processors ==
    {Proc("audit", 10, FALSE, FALSE), Proc("pii-guard", 100, FALSE, FALSE),
     Proc("quota", 100, TRUE, FALSE), Proc("sign", 200, FALSE, TRUE)}

\* the bodies handed to the pipeline
PipeBodies == {<<>>, <<"in">>}

\* the call of the phase on the processor returns an error
Fails(proc, phase) == IF phase = "request" THEN proc.FailsRequest ELSE proc.FailsResponse

\* the body OnRequest or OnResponse returns: the processor leaves its mark
OnCall(proc, body) == Append(body, proc.Name)

\* a variant of the comparison that puts the higher priority first
ByPriorityDesc(a, b) == a.Priority > b.Priority

\* the less function of sort.Slice
ByPriority(a, b) == a.Priority < b.Priority

\* what sort.Slice may leave of the copy of ps: its elements in an order in
\* which none is less than one before it (the sort is not stable)
SortedCopies(ps) ==
    {[i \in 1..Len(ps) |-> ps[o[i]]] :
        o \in {o \in Orders(1..Len(ps)) :
                  \A i, j \in 1..Len(ps) : i < j => ~ByPriority(ps[o[j]], ps[o[i]])}}

RECURSIVE RunFrom(_, _, _, _, _)
\* the loop of Execute from the k-th processor of ps on: the calls made so
\* far with the body each was handed, and what Execute returns
RunFrom(ps, k, phase, body, calls) ==
    IF k > Len(ps) THEN [calls |-> calls, ok |-> TRUE, result |-> body]
    ELSE IF Fails(ps[k], phase)
    THEN [calls |-> Append(calls, [proc |-> ps[k], body |-> body]), ok |-> FALSE,
          result |-> <<>>]
    ELSE RunFrom(ps, k + 1, phase, OnCall(ps[k], body),
                 Append(calls, [proc |-> ps[k], body |-> body]))

\* NewPipeline()
PipelineInit ==
    /\ rules = NewScanner
    /\ ctx = NewGatewayContext
    /\ ScanIdle
    /\ SendIdle
    /\ RouteIdle
    /\ HeaderIdle
    /\ GatewayIdle
    /\ PipelineIdle

\* Pipeline.AddProcessor
AddProcessor(proc) ==
    /\ Len(processors) < MaxProcessors
    /\ \A k \in 1..Len(processors) : processors[k] # proc
    /\ processors' = Append(processors, proc)
    /\ pipeRun' = NoRun
    /\ UNCHANGED <<scanVars, sendVars, routeVars, headerVars, gatewayVars>>

\* Execute of the phase, sorted being the sorted copy and r what its loop
\* returns; the registered list is not written
Executed(phase, body, r) ==
    /\ pipeRun' = [phase |-> phase, body |-> body, calls |-> r.calls, ok |-> r.ok,
                   result |-> r.result]
    /\ UNCHANGED <<processors, scanVars, sendVars, routeVars, headerVars, gatewayVars>>

\* Pipeline.ExecuteRequest
ExecuteRequest(body) ==
    \E sorted \in SortedCopies(processors) :
        Executed("request", body, RunFrom(sorted, 1, "request", body, <<>>))

\* Pipeline.ExecuteResponse
ExecuteResponse(body) ==
    \E sorted \in SortedCopies(processors) :
        Executed("response", body, RunFrom(sorted, 1, "response", body, <<>>))

PipelineNext ==
    \/ \E proc \in Processors : AddProcessor(proc)
    \/ \E body \in PipeBodies : ExecuteRequest(body)
    \/ \E body \in PipeBodies : ExecuteResponse(body)

SpecPipeline == PipelineInit /\ [][PipelineNext]_vars

\* the k-th processor Execute called, and whether that call failed
Called(k) == pipeRun.calls[k].proc
CallFailed(k) == Fails(Called(k), pipeRun.phase)

\* the body the k-th call returned
Passed(k) == OnCall(Called(k), pipeRun.calls[k].body)

\* the calls of the last execution are a run of the registered processors
\* by priority: each processor at most once, none before one of lower
\* priority, each handed the body the call before it returned, no call after
\* a failed one, and nothing left out but what would run after a failure
RanByPriority ==
    /\ \A k \in 1..Len(pipeRun.calls) :
          /\ \E i \in 1..Len(processors) : processors[i] = Called(k)
          /\ \A l \in 1..(k - 1) :
                /\ Called(l) # Called(k)
                /\ Called(l).Priority <= Called(k).Priority
                /\ ~CallFailed(l)
          /\ pipeRun.calls[k].body = IF k = 1 THEN pipeRun.body ELSE Passed(k - 1)
    /\ \A i \in 1..Len(processors) :
          (\A k \in 1..Len(pipeRun.calls) : Called(k) # processors[i])
              => /\ Len(pipeRun.calls) > 0
                 /\ CallFailed(Len(pipeRun.calls))
                 /\ processors[i].Priority >= Called(Len(pipeRun.calls)).Priority

\* what Execute returned: nil and the error of the failed call, or the body
\* the last call returned
ReturnedLast ==
    IF Len(pipeRun.calls) = 0 THEN pipeRun.ok /\ pipeRun.result = pipeRun.body
    ELSE IF CallFailed(Len(pipeRun.calls)) THEN ~pipeRun.ok /\ pipeRun.result = <<>>
    ELSE pipeRun.ok /\ pipeRun.result = Passed(Len(pipeRun.calls))

\* C28: ExecuteRequest and ExecuteResponse call the registered processors in
\* non-decreasing priority order whatever the registration order, each on
\* the body the one before returned; the first error ends the run; and an
\* execution leaves the registered list as it is.
C28_PriorityOrder ==
    /\ [](pipeRun.phase # "" => RanByPriority /\ ReturnedLast)
    /\ [][pipeRun'.phase # "" => processors' = processors]_vars

\* three processors registered from the highest priority to the lowest ran
\* a request from the lowest to the highest, and the list is as registered
C28_RegisteredBackwards ==
    /\ Len(processors) = 3
    /\ \A k \in 1..2 : processors[k].Priority > processors[k + 1].Priority
    /\ pipeRun.phase = "request"
    /\ pipeRun.ok
    /\ Len(pipeRun.calls) = 3
    /\ Called(1) = processors[3]

----------------------------------------------------------------------------
(* Properties of the engine's matchers.                                    *)

\* the engine was built from the configured routes
EngineBuilt == enginePc \in {"ready", "found"}

\* C29: in an engine that NewEngine accepted, the matchers FindRoute looks
\* up for route i are the ones compiled from route i's own matcher map.
C29_OwnMatcher ==
    EngineBuilt => \A i \in 1..Len(routes) : matchers[routes[i].ID] = routes[i].Matcher

\* C29 for the configurations in which no two routes carry the same id
C29_UniqueIds ==
    (\A i, j \in 1..Len(routes) : routes[i].ID = routes[j].ID => i = j) => C29_OwnMatcher

\* two routes with different ids and different matchers, and a route found
C29_TwoRoutes ==
    /\ enginePc = "found"
    /\ Len(routes) = 2
    /\ routes[1].ID # routes[2].ID
    /\ routes[1].Matcher # routes[2].Matcher
    /\ findResult.route = 2

====
